---- MODULE Spec2Model ----
(***************************************************************************)
(* Bibliography Manager (Obsidian plugin): citekey generation, template    *)
(* rendering, the exportBibliography API and the vault of source notes     *)
(* with import, export and the Generate-citekey command.                   *)
(*                                                                         *)
(* JavaScript strings are modelled as sequences of one-character strings.  *)
(***************************************************************************)
EXTENDS Integers, Sequences, FiniteSets, TLC

VARIABLES
  ckArgs,    \* arguments of a generateFromTitleAndAuthors call
  ckResult,  \* the citekey it returned, None before the call returns
  tplArgs,   \* the template (as tokens) and the source data of a rendering
  tplResult, \* the rendered text, None before the rendering returns
  vault,     \* the files of the vault, in the order the folders list them
  folders,   \* the folders created in the vault
  settings,  \* plugin.settings
  templateFiles, \* the template files of the vault: path -> template
  exported,  \* what the export dialog last generated, None once the vault or the settings changed
  now,       \* new Date().getFullYear()
  imported,  \* the paths of the notes created by an import and not touched since
  generated, \* per note, the last two generations of its citekey with its title, authors and year
  apiCall,   \* the method and arguments of a call of the API and the binding of this
  apiResult, \* how the call settled, None before it does
  bibFiles,  \* the writes of bibliography files (vault.adapter.write), in order
  notice,    \* the text of the last Notice shown, None when none was
  dialog,    \* sourceData of the open import dialog
  plugins,   \* app.plugins.plugins: plugin id -> the entry registered under it
  lifecycle, \* how far the plugin's life has come
  doiArgs,   \* a DOI as the user supplies it
  doiResult, \* the DOI after the clean-up of the lookup or of the export, None before
  loads,     \* the runs of loadTemplateFile that wait for vault.adapter, in the order they began
  saving,    \* the Template file handlers that wait for saveSettings
  importing, \* how far importSource has come
  rendered,  \* the template each import handed to the SourceImporter, in order
  uniqueArgs,  \* a folder (None when no folder is at the path; else its entries, name -> kind) and a base filename
  uniqueResult \* the filename getUniqueFilename returned, None before the call

ckVars == <<ckArgs, ckResult>>

tplVars == <<tplArgs, tplResult>>

vaultVars == <<vault, folders, settings, templateFiles, exported, now, imported, generated>>

apiVars == <<apiCall, apiResult>>

outVars == <<bibFiles, notice>>

pluginVars == <<plugins, lifecycle>>

doiVars == <<doiArgs, doiResult>>

loadVars == <<loads, saving, importing, rendered>>

fileVars == <<uniqueArgs, uniqueResult>>

restVars == <<outVars, dialog, pluginVars, doiVars, fileVars, loadVars>>

vars == <<ckVars, tplVars, vaultVars, apiVars, restVars>>

\* an optional value is a sequence of at most one element
None == <<>>

Some(x) == <<x>>

IsSome(o) == o # <<>>

Val(o) == o[1]

\* the JavaScript value undefined
Undefined == "undefined"

\* ------------------------------------------------------------------------
\* JavaScript string primitives
\* ------------------------------------------------------------------------

Lowers == <<"a","b","c","d","e","f","g","h","i","j","k","l","m",
            "n","o","p","q","r","s","t","u","v","w","x","y","z">>

Uppers == <<"A","B","C","D","E","F","G","H","I","J","K","L","M",
            "N","O","P","Q","R","S","T","U","V","W","X","Y","Z">>

Range(s) == { s[i] : i \in DOMAIN s }

IsLetter(c) == c \in Range(Lowers) \cup Range(Uppers)

\* the characters U+2014 and U+2013, written as tokens
EmDash == "emdash"

EnDash == "endash"

IsSpace(c) == c \in {" ", "\t", "\n"}

Min(a, b) == IF a < b THEN a ELSE b

Max(a, b) == IF a > b THEN a ELSE b

UpperChar(c) ==
  IF c \in Range(Lowers)
    THEN Uppers[CHOOSE i \in DOMAIN Lowers : Lowers[i] = c]
    ELSE c

LowerChar(c) ==
  IF c \in Range(Uppers)
    THEN Lowers[CHOOSE i \in DOMAIN Uppers : Uppers[i] = c]
    ELSE c

\* String.prototype.toUpperCase / toLowerCase
ToUpperCase(s) == [i \in DOMAIN s |-> UpperChar(s[i])]

ToLowerCase(s) == [i \in DOMAIN s |-> LowerChar(s[i])]

\* String.prototype.substring(a, b) with 0-based, end-exclusive indices
Substring(s, a, b) ==
  LET lo == Max(0, Min(Min(a, b), Len(s)))
      hi == Max(0, Min(Max(a, b), Len(s)))
  IN SubSeq(s, lo + 1, hi)

\* String.prototype.substring(a)
SubstringFrom(s, a) == Substring(s, a, Len(s))

\* String.prototype.charAt(0): the empty string when s is empty
CharAt0(s) == Substring(s, 0, 1)

\* String.prototype.slice(-n)
SliceLast(s, n) == SubSeq(s, Max(1, Len(s) - n + 1), Len(s))

RECURSIVE TrimStart(_)
TrimStart(s) ==
  IF s # <<>> /\ IsSpace(Head(s)) THEN TrimStart(Tail(s)) ELSE s

RECURSIVE TrimEnd(_)
TrimEnd(s) ==
  IF s # <<>> /\ IsSpace(s[Len(s)])
    THEN TrimEnd(SubSeq(s, 1, Len(s) - 1))
    ELSE s

\* String.prototype.trim
Trim(s) == TrimEnd(TrimStart(s))

\* String.prototype.split(sep) for a one-character separator
RECURSIVE SplitAcc(_, _, _)
SplitAcc(s, sep, cur) ==
  IF s = <<>> THEN <<cur>>
  ELSE IF Head(s) = sep
    THEN <<cur>> \o SplitAcc(Tail(s), sep, <<>>)
    ELSE SplitAcc(Tail(s), sep, Append(cur, Head(s)))

Split(s, sep) == SplitAcc(s, sep, <<>>)

\* String.prototype.lastIndexOf(c), 0-based, -1 when absent
LastIndexOf(s, c) ==
  IF c \in Range(s)
    THEN (CHOOSE i \in DOMAIN s :
            s[i] = c /\ \A j \in DOMAIN s : s[j] = c => j <= i) - 1
    ELSE -1

\* Array.prototype.join(sep)
RECURSIVE Join(_, _)
Join(items, sep) ==
  IF items = <<>> THEN <<>>
  ELSE IF Len(items) = 1 THEN items[1]
  ELSE items[1] \o sep \o Join(Tail(items), sep)

\* s.replace(/[...]/g, repl) for a character class
RECURSIVE ReplaceClass(_, _, _)
ReplaceClass(s, class, repl) ==
  IF s = <<>> THEN <<>>
  ELSE (IF Head(s) \in class THEN repl ELSE <<Head(s)>>)
         \o ReplaceClass(Tail(s), class, repl)

\* index (1-based) of the first occurrence of c in s at or after position i, 0 when none
RECURSIVE FindFrom(_, _, _)
FindFrom(s, c, i) ==
  IF i > Len(s) THEN 0
  ELSE IF s[i] = c THEN i
  ELSE FindFrom(s, c, i + 1)

\* ------------------------------------------------------------------------
\* CitekeyGenerator (utils/api.ts)
\* ------------------------------------------------------------------------

\* title.replace(/<[^>]*>/g, "")
RECURSIVE RemoveTags(_)
RemoveTags(s) ==
  IF s = <<>> THEN <<>>
  ELSE IF Head(s) = "<" /\ FindFrom(s, ">", 2) # 0
    THEN RemoveTags(SubSeq(s, FindFrom(s, ">", 2) + 1, Len(s)))
    ELSE <<Head(s)>> \o RemoveTags(Tail(s))

\* title.replace(/&[^;]+;/g, "")
RECURSIVE RemoveEntities(_)
RemoveEntities(s) ==
  IF s = <<>> THEN <<>>
  ELSE IF Head(s) = "&" /\ FindFrom(s, ";", 2) > 2
    THEN RemoveEntities(SubSeq(s, FindFrom(s, ";", 2) + 1, Len(s)))
    ELSE <<Head(s)>> \o RemoveEntities(Tail(s))

\* length of the run of letters of s starting at position i
RECURSIVE LetterRun(_, _)
LetterRun(s, i) ==
  IF i <= Len(s) /\ IsLetter(s[i]) THEN 1 + LetterRun(s, i + 1) ELSE 0

\* title.replace(/\\[a-zA-Z]+\{([^}]+)\}/g, "$1")
RECURSIVE RemoveLatex(_)
RemoveLatex(s) ==
  IF s = <<>> THEN <<>>
  ELSE
    LET n     == LetterRun(s, 2)
        open  == 2 + n
        close == FindFrom(s, "}", open + 1)
    IN IF /\ Head(s) = "\\"
          /\ n >= 1
          /\ open <= Len(s)
          /\ s[open] = "{"
          /\ close > open + 1
         THEN SubSeq(s, open + 1, close - 1)
                \o RemoveLatex(SubSeq(s, close + 1, Len(s)))
         ELSE <<Head(s)>> \o RemoveLatex(Tail(s))

RECURSIVE StripLeadingHyphens(_)
StripLeadingHyphens(s) ==
  IF s # <<>> /\ Head(s) = "-" THEN StripLeadingHyphens(Tail(s)) ELSE s

RECURSIVE StripTrailingHyphens(_)
StripTrailingHyphens(s) ==
  IF s # <<>> /\ s[Len(s)] = "-"
    THEN StripTrailingHyphens(SubSeq(s, 1, Len(s) - 1))
    ELSE s

\* the replace chain without the removal of the invalid filename characters (bug variant)
CleanMarkupKeepInvalid(title) ==
  LET s1 == RemoveTags(title)
      s2 == RemoveEntities(s1)
      s3 == RemoveLatex(s2)
      s4 == ReplaceClass(s3, {"{", "}", "$"}, <<>>)
      s5 == ReplaceClass(s4, {",", ":", ";"}, <<" ">>)
  IN ReplaceClass(s5, {EmDash, EnDash}, <<"-">>)

\* the replace chain shared by generateCitekey (title branch) and sanitizeFilename
CleanMarkup(title) ==
  LET s1 == RemoveTags(title)
      s2 == RemoveEntities(s1)
      s3 == RemoveLatex(s2)
      s4 == ReplaceClass(s3, {"{", "}", "$"}, <<>>)
      s5 == ReplaceClass(s4, {",", ":", ";"}, <<" ">>)
      s6 == ReplaceClass(s5, {EmDash, EnDash}, <<"-">>)
  IN ReplaceClass(s6, {"<", ">", ":", "\"", "/", "\\", "|", "?", "*"}, <<>>)

\* CitekeyGenerator.sanitizeFilename
sanitizeFilename(title) ==
  Trim(StripTrailingHyphens(StripLeadingHyphens(CleanMarkup(title))))

\* CitekeyGenerator.extractLastName
extractLastName(authorName) ==
  LET raw   == Split(authorName, ",")
      parts == [i \in DOMAIN raw |-> Trim(raw[i])]
  IN IF Len(parts) = 2
       THEN parts[1]
       ELSE LET words == Split(parts[1], " ") IN words[Len(words)]

\* base.charAt(0).toUpperCase() + base.substring(1).toLowerCase()
CapitalizeBase(base) ==
  ToUpperCase(CharAt0(base)) \o ToLowerCase(SubstringFrom(base, 1))

\* the one-author branch of generateCitekey with a wrong cut (bug variant)
SingleAuthorKeyTwoLetters(author, yearSuffix) ==
  CapitalizeBase(Substring(extractLastName(author), 0, 2)) \o yearSuffix

\* generateCitekey, authors.length === 1
SingleAuthorKey(author, yearSuffix) ==
  CapitalizeBase(Substring(extractLastName(author), 0, 3)) \o yearSuffix

\* generateCitekey, authors.length >= 2
MultiAuthorKey(authors, yearSuffix) ==
  LET firstInitial  == Substring(extractLastName(authors[1]), 0, 2)
      secondInitial == Substring(extractLastName(authors[2]), 0, 2)
  IN CapitalizeBase(firstInitial) \o CapitalizeBase(secondInitial) \o yearSuffix

\* generateCitekey, authors.length === 0
TitleKey(title, yearSuffix) ==
  IF Trim(title) # <<>>
    THEN LET cleanTitle == Trim(CleanMarkup(title))
             titleBase  == ToLowerCase(Substring(cleanTitle, 0, 5))
         IN ToUpperCase(CharAt0(titleBase)) \o SubstringFrom(titleBase, 1)
              \o yearSuffix
    ELSE <<"U","n","k","n","o","w","n">> \o yearSuffix

\* CitekeyGenerator.generateCitekey; year is given as the text year.toString() yields
generateCitekey(authors, year, title) ==
  LET yearSuffix == SliceLast(year, 2)
  IN IF Len(authors) = 0 THEN TitleKey(title, yearSuffix)
     ELSE IF Len(authors) = 1 THEN SingleAuthorKey(authors[1], yearSuffix)
     ELSE MultiAuthorKey(authors, yearSuffix)

\* CitekeyGenerator.generateFromTitleAndAuthors
generateFromTitleAndAuthors(title, authors, year) ==
  generateCitekey(authors, year, title)


\* ------------------------------------------------------------------------
\* Template rendering (utils/soureImporter.ts, sourceService.ts)
\* ------------------------------------------------------------------------

\* JavaScript values of source data and template data: a string, an array of
\* strings, a number (held as its decimal text) or undefined/null
StrV(s) == [t |-> "str", v |-> <<s>>]

ArrV(items) == [t |-> "arr", v |-> items]

NumV(digits) == [t |-> "num", v |-> <<digits>>]

UndefV == [t |-> "undef", v |-> <<>>]

nTitle == <<"t","i","t","l","e">>

nAuthor == <<"a","u","t","h","o","r">>

nKeywords == <<"k","e","y","w","o","r","d","s">>

nDoi == <<"d","o","i">>

nYear == <<"y","e","a","r">>

nCitekey == <<"c","i","t","e","k","e","y">>

nAtcitekey == <<"a","t","c","i","t","e","k","e","y">>

nAuthorList == <<"a","u","t","h","o","r","L","i","s","t">>

nFilename == <<"f","i","l","e","n","a","m","e">>

nLength == <<"l","e","n","g","t","h">>

ArraySuffix == <<"A","r","r","a","y">>

Digits == <<"0","1","2","3","4","5","6","7","8","9">>

\* Number.prototype.toString for 0..99
DecimalText(n) ==
  IF n < 10 THEN <<Digits[n + 1]>>
  ELSE <<Digits[(n \div 10) + 1], Digits[(n % 10) + 1]>>

\* f with the bindings of g added or replaced
Override(f, g) ==
  [k \in DOMAIN f \cup DOMAIN g |-> IF k \in DOMAIN g THEN g[k] ELSE f[k]]

\* String(value) for a defined value: arrays are joined with "," by Array.prototype.toString
StringOf(val) ==
  IF val.t = "arr" THEN Join(val.v, <<",">>) ELSE val.v[1]

\* value || "" as the truthiness of a template or source value
Truthy(val) ==
  \/ val.t = "arr"
  \/ val.t = "str" /\ val.v[1] # <<>>
  \/ val.t = "num" /\ val.v[1] \notin { <<"0">>, <<"N","a","N">> }

\* item.replace(/"/g, '\\"')
EscapeQuotes(item) == ReplaceClass(item, {"\""}, <<"\\", "\"">>)

\* formatYamlArray
formatYamlArray(array) ==
  IF Len(array) = 0
    THEN <<"[", "]">>
    ELSE <<"[">>
           \o Join([i \in DOMAIN array |-> <<"\"">> \o EscapeQuotes(array[i]) \o <<"\"">>],
                   <<",", " ">>)
           \o <<"]">>

\* the Object.keys(source).forEach loop shared by generateSourceFromTemplate and renderTemplate
FieldEntries(source) ==
  LET plain == [k \in DOMAIN source |->
                  IF source[k].t # "undef"
                    THEN IF k = nAtcitekey THEN StrV(<<"@">> \o StringOf(source[k]))
                         ELSE IF source[k].t = "arr" THEN source[k]
                         ELSE StrV(StringOf(source[k]))
                    ELSE IF k \in {nAuthor, nKeywords} THEN ArrV(<<>>)
                         ELSE StrV(<<>>)]
      withArray == { k \in DOMAIN source :
                       \/ source[k].t = "arr" /\ k # nAtcitekey
                       \/ source[k].t = "undef" /\ k \in {nAuthor, nKeywords} }
      arrays == [k \in { f \o ArraySuffix : f \in withArray } |->
                   LET f == CHOOSE g \in withArray : g \o ArraySuffix = k
                   IN IF source[f].t = "arr"
                        THEN StrV(formatYamlArray(source[f].v))
                        ELSE StrV(<<"[", "]">>)]
  IN Override(arrays, plain)

\* templateData.authorList
AuthorListEntry(source) ==
  IF nAuthor \in DOMAIN source /\ source[nAuthor].t = "arr"
    THEN StrV(Join(source[nAuthor].v, <<",", " ">>))
    ELSE IF nAuthor \in DOMAIN source /\ Truthy(source[nAuthor])
      THEN StrV(StringOf(source[nAuthor]))
      ELSE StrV(<<>>)

\* templateData.atcitekey, set only for a truthy citekey
AtcitekeyEntry(source) ==
  IF nCitekey \in DOMAIN source /\ Truthy(source[nCitekey])
    THEN (nAtcitekey :> StrV(<<"@">> \o StringOf(source[nCitekey])))
    ELSE <<>>

\* the title handed to sanitizeFilename; a missing title makes the call throw
TitleText(source) ==
  IF nTitle \in DOMAIN source /\ source[nTitle].t = "str" THEN source[nTitle].v[1] ELSE <<>>

\* templateData of SourceImporter.generateSourceFromTemplate
ImporterTemplateData(source) ==
  Override(Override(FieldEntries(source),
                    (nAuthorList :> AuthorListEntry(source))
                      @@ (nFilename :> StrV(sanitizeFilename(TitleText(source))))),
           AtcitekeyEntry(source))

\* templateData of SourceService.renderTemplate
ServiceTemplateData(source) ==
  Override(Override(FieldEntries(source), (nAuthorList :> AuthorListEntry(source))),
           AtcitekeyEntry(source))

\* current[key] for a key of a string or an array held in the template data
PropertyOf(val, key) ==
  IF key = nLength /\ val.t = "arr" THEN NumV(DecimalText(Len(val.v)))
  ELSE IF key = nLength /\ val.t = "str" THEN NumV(DecimalText(Len(val.v[1])))
  ELSE UndefV

\* SourceImporter.getNestedValue: path.split(".").reduce(...)
RECURSIVE ReducePath(_, _)
ReducePath(current, keys) ==
  IF keys = <<>> THEN current
  ELSE ReducePath(IF Truthy(current) THEN PropertyOf(current, Head(keys)) ELSE UndefV,
                  Tail(keys))

getNestedValue(data, path) ==
  LET keys == Split(path, ".")
  IN IF Head(keys) \in DOMAIN data
       THEN ReducePath(data[Head(keys)], Tail(keys))
       ELSE UndefV

\* templateData[trimmedPath] of SourceService.renderTemplate
DirectValue(data, path) ==
  IF path \in DOMAIN data THEN data[path] ELSE UndefV

\* length of the run of characters other than "}" of s starting at position i
RECURSIVE NonBraceRun(_, _)
NonBraceRun(s, i) ==
  IF i <= Len(s) /\ s[i] # "}" THEN 1 + NonBraceRun(s, i + 1) ELSE 0

\* length of the match of /\{\{([^}]+)\}\}/ at the head of s, 0 when there is none
PlaceholderLen(s) ==
  LET n == NonBraceRun(s, 3)
  IN IF /\ Len(s) >= 5
        /\ s[1] = "{"
        /\ s[2] = "{"
        /\ n >= 1
        /\ Len(s) >= n + 4
        /\ s[n + 3] = "}"
        /\ s[n + 4] = "}"
       THEN n + 4
       ELSE 0

\* String(value) without the test for undefined and null (bug variant)
RenderedValueUnguarded(val) ==
  IF val.t = "undef" THEN <<"u","n","d","e","f","i","n","e","d">> ELSE StringOf(val)

\* value !== undefined && value !== null ? String(value) : ""
RenderedValue(val) == IF val.t = "undef" THEN <<>> ELSE StringOf(val)

\* SourceImporter.renderTemplateWithRegex
RECURSIVE renderTemplateWithRegex(_, _)
renderTemplateWithRegex(template, data) ==
  IF template = <<>> THEN <<>>
  ELSE LET m == PlaceholderLen(template)
       IN IF m > 0
            THEN RenderedValue(getNestedValue(data, Trim(SubSeq(template, 3, m - 2))))
                   \o renderTemplateWithRegex(SubSeq(template, m + 1, Len(template)), data)
            ELSE <<Head(template)>> \o renderTemplateWithRegex(Tail(template), data)

\* the result.replace(...) of SourceService.renderTemplate
RECURSIVE ReplacePlaceholders(_, _)
ReplacePlaceholders(template, data) ==
  IF template = <<>> THEN <<>>
  ELSE LET m == PlaceholderLen(template)
       IN IF m > 0
            THEN RenderedValue(DirectValue(data, Trim(SubSeq(template, 3, m - 2))))
                   \o ReplacePlaceholders(SubSeq(template, m + 1, Len(template)), data)
            ELSE <<Head(template)>> \o ReplacePlaceholders(Tail(template), data)

\* SourceService.renderTemplate
renderTemplate(template, sourceData) ==
  ReplacePlaceholders(template, ServiceTemplateData(sourceData))


\* ------------------------------------------------------------------------
\* Settings (types/settings.ts)
\* ------------------------------------------------------------------------

\* DEFAULT_SETTINGS.fieldMappings: bibliography field -> frontmatter key
DefaultFieldMappings ==
  ("id" :> "citekey")
    @@ ("type" :> "bibtype")
    @@ ("title" :> "title")
    @@ ("author" :> "author")
    @@ ("editor" :> "editor")
    @@ ("translator" :> "translator")
    @@ ("publisher" :> "publisher")
    @@ ("publisher-place" :> "publisher-place")
    @@ ("container-title" :> "journal")
    @@ ("volume" :> "volume")
    @@ ("issue" :> "number")
    @@ ("page" :> "pages")
    @@ ("issued" :> "year")
    @@ ("DOI" :> "doi")
    @@ ("ISBN" :> "isbn")
    @@ ("ISSN" :> "issn")
    @@ ("URL" :> "url")
    @@ ("abstract" :> "abstract")
    @@ ("keyword" :> "keywords")
    @@ ("note" :> "note")
    @@ ("language" :> "language")
    @@ ("edition" :> "edition")
    @@ ("series" :> "series")
    @@ ("chapter-number" :> "chapter")
    @@ ("event-title" :> "booktitle")
    @@ ("genre" :> "genre")
    @@ ("accessed" :> "accessed")

\* BIB_FIELDS
BIB_FIELDS ==
  <<"title", "author", "year", "publisher", "journal", "booktitle",
     "doi", "url", "isbn", "issn", "pages", "volume",
     "number", "keywords", "abstract", "note", "language", "editor",
     "series", "edition", "chapter", "institution", "organization", "school",
     "address", "month", "day">>

\* the frontmatter of DEFAULT_SETTINGS.sourceNoteTemplate: its lines, each a
\* key and the template text of its value
DefaultSourceNoteTemplate ==
  <<[key |-> "citekey", value |-> <<"{","{","c","i","t","e","k","e","y","}","}">>],
    [key |-> "title", value |-> <<"\"","{","{","t","i","t","l","e","}","}","\"">>],
    [key |-> "author", value |-> <<"{","{","a","u","t","h","o","r","A","r","r","a","y","}","}">>],
    [key |-> "keywords", value |-> <<"{","{","k","e","y","w","o","r","d","s","A","r","r","a","y","}","}">>],
    [key |-> "bibtype", value |-> <<"{","{","b","i","b","t","y","p","e","}","}">>],
    [key |-> "aliases", value |-> <<"[","{","{","a","t","c","i","t","e","k","e","y","}","}","]">>],
    [key |-> "filename", value |-> <<"{","{","f","i","l","e","n","a","m","e","}","}">>],
    [key |-> "doi", value |-> <<"{","{","d","o","i","}","}">>],
    [key |-> "isbn", value |-> <<"{","{","i","s","b","n","}","}">>],
    [key |-> "publisher", value |-> <<"{","{","p","u","b","l","i","s","h","e","r","}","}">>],
    [key |-> "journal", value |-> <<"{","{","j","o","u","r","n","a","l","}","}">>],
    [key |-> "volume", value |-> <<"{","{","v","o","l","u","m","e","}","}">>],
    [key |-> "number", value |-> <<"{","{","n","u","m","b","e","r","}","}">>],
    [key |-> "pages", value |-> <<"{","{","p","a","g","e","s","}","}">>],
    [key |-> "abstract", value |-> <<"{","{","a","b","s","t","r","a","c","t","}","}">>],
    [key |-> "year", value |-> <<"{","{","y","e","a","r","}","}">>],
    [key |-> "url", value |-> <<"{","{","u","r","l","}","}">>],
    [key |-> "downloadurl", value |-> <<"{","{","d","o","w","n","l","o","a","d","u","r","l","}","}">>],
    [key |-> "imageurl", value |-> <<"{","{","i","m","a","g","e","u","r","l","}","}">>]>>

\* DEFAULT_SETTINGS: the settings the model reads
DEFAULT_SETTINGS ==
  [sourcesFolder      |-> <<"sources">>,
   fieldMappings      |-> DefaultFieldMappings,
   bibliographyFilename |-> <<"b","i","b","l","i","o","g","r","a","p","h","y">>,
   bibliographyOutputFolder |-> <<>>,
   bibliographyFormat |-> "bibtex",
   sourceNoteTemplate |-> DefaultSourceNoteTemplate,
   templateFile       |-> <<>>]

\* ------------------------------------------------------------------------
\* The vault and the metadata cache
\* ------------------------------------------------------------------------

\* A file is [dir, name, ext, fm]: the folder path (a sequence of folder
\* names), the base name, the extension and the frontmatter the metadata
\* cache reports for it (None when it has none).  The vault is the sequence
\* of its files in the order in which the folders list them.

\* frontmatter[key]
FmGet(fm, key) == IF key \in DOMAIN fm THEN fm[key] ELSE UndefV

\* cache?.frontmatter?.citekey
CachedCitekey(file) == IF IsSome(file.fm) THEN FmGet(Val(file.fm), "citekey") ELSE UndefV

IsPrefix(p, q) == Len(p) <= Len(q) /\ SubSeq(q, 1, Len(p)) = p

\* vault.getAbstractFileByPath(path) instanceof TFolder
FolderExists(files, existingFolders, dir) ==
  \/ dir \in existingFolders
  \/ \E i \in DOMAIN files : IsPrefix(dir, files[i].dir)

\* a test that takes every markdown file for a source file (bug variant)
IsSourceFileAnyMarkdown(child) == child.ext = "md"

\* child.extension === "md" and a truthy cache?.frontmatter?.citekey
IsSourceFile(child) == child.ext = "md" /\ Truthy(CachedCitekey(child))

\* SourceService.searchSourceFilesRecursive: the loop over folder.children
\* from the i-th file on; a subfolder is entered where its first file stands.
\* The result lists the found files by their position in the vault.
RECURSIVE searchSourceFilesRecursive(_, _, _, _)
searchSourceFilesRecursive(files, folder, i, seenFolders) ==
  IF i > Len(files) THEN <<>>
  ELSE IF files[i].dir = folder
    THEN (IF IsSourceFile(files[i]) THEN <<i>> ELSE <<>>)
           \o searchSourceFilesRecursive(files, folder, i + 1, seenFolders)
  ELSE IF IsPrefix(folder, files[i].dir)
    THEN LET child == SubSeq(files[i].dir, 1, Len(folder) + 1)
         IN IF child \in seenFolders
              THEN searchSourceFilesRecursive(files, folder, i + 1, seenFolders)
              ELSE searchSourceFilesRecursive(files, child, 1, {})
                     \o searchSourceFilesRecursive(files, folder, i + 1, seenFolders \cup {child})
  ELSE searchSourceFilesRecursive(files, folder, i + 1, seenFolders)

\* SourceService.findAllSourceFiles
findAllSourceFiles(files, existingFolders, sourcesFolder) ==
  IF ~FolderExists(files, existingFolders, sourcesFolder)
    THEN <<>>
    ELSE searchSourceFilesRecursive(files, sourcesFolder, 1, {})

\* ------------------------------------------------------------------------
\* Bibliography generation (sourceService.ts)
\* ------------------------------------------------------------------------

\* mappings[field]; a missing mapping is undefined, which names the key "undefined"
MappedKey(mappings, field) ==
  IF field \in DOMAIN mappings THEN mappings[field] ELSE Undefined

HasMapping(mappings, field) ==
  field \in DOMAIN mappings /\ mappings[field] # ""

\* a || b on JavaScript values
OrElse(a, b) == IF Truthy(a) THEN a ELSE b

\* frontmatter.category?.[0]
CategoryFirst(fm) ==
  LET c == FmGet(fm, "category")
  IN IF c.t = "arr" /\ Len(c.v) > 0 THEN StrV(c.v[1])
     ELSE IF c.t = "str" /\ Len(c.v[1]) > 0 THEN StrV(<<c.v[1][1]>>)
     ELSE UndefV

\* SourceService.mapToBibTeXType
mapToBibTeXType(bibType, category) ==
  IF Truthy(bibType) /\ bibType # StrV(<<"m","i","s","c">>)
    THEN bibType
    ELSE LET categoryLower == IF category.t = "str" THEN ToLowerCase(category.v[1]) ELSE <<>>
         IN IF categoryLower = <<"b","o","o","k">> THEN StrV(<<"b","o","o","k">>)
            ELSE IF categoryLower = <<"p","a","p","e","r">> THEN StrV(<<"a","r","t","i","c","l","e">>)
            ELSE IF categoryLower = <<"w","e","b","s","i","t","e">> THEN StrV(<<"w","e","b","p","a","g","e">>)
            ELSE IF categoryLower = <<"t","h","e","s","i","s">> THEN StrV(<<"t","h","e","s","i","s">>)
            ELSE IF categoryLower = <<"r","e","p","o","r","t">> THEN StrV(<<"r","e","p","o","r","t">>)
            ELSE StrV(<<"a","r","t","i","c","l","e">>)

IsDigit(c) == c \in Range(Digits)

\* frontmatter[yearKey].match(/\d{4}/): the first run of four digits, None when there is none
RECURSIVE MatchFourDigits(_)
MatchFourDigits(s) ==
  IF Len(s) < 4 THEN None
  ELSE IF \A i \in 1..4 : IsDigit(s[i]) THEN Some(SubSeq(s, 1, 4))
  ELSE MatchFourDigits(Tail(s))

StartsWith(s, prefix) == IsPrefix(prefix, s)

DoiOrgPrefix == <<"h","t","t","p","s",":","/","/","d","o","i",".","o","r","g","/">>

DxDoiOrgPrefix == <<"h","t","t","p",":","/","/","d","x",".","d","o","i",".","o","r","g","/">>

DoiColonPrefix == <<"d","o","i",":">>

\* the DOI clean-up of convertFrontmatterToCitationJS
CleanExportedDoi(doi) ==
  IF StartsWith(doi, DoiOrgPrefix) THEN SubSeq(doi, Len(DoiOrgPrefix) + 1, Len(doi))
  ELSE IF StartsWith(doi, DxDoiOrgPrefix) THEN SubSeq(doi, Len(DxDoiOrgPrefix) + 1, Len(doi))
  ELSE IF StartsWith(doi, DoiColonPrefix) THEN Trim(SubSeq(doi, Len(DoiColonPrefix) + 1, Len(doi)))
  ELSE doi

\* the length of the match of /^https?:\/\/(?:dx\.)?doi\.org\// at the start of doi, 0 when none
DoiUrlMatch(doi) ==
  LET scheme == IF StartsWith(doi, <<"h","t","t","p","s">>) THEN 5
                ELSE IF StartsWith(doi, <<"h","t","t","p">>) THEN 4 ELSE 0
      rest1  == SubSeq(doi, scheme + 1, Len(doi))
      slashes == IF scheme > 0 /\ StartsWith(rest1, <<":","/","/">>) THEN 3 ELSE 0
      rest2  == SubSeq(rest1, slashes + 1, Len(rest1))
      dx     == IF StartsWith(rest2, <<"d","x",".">>) THEN 3 ELSE 0
      rest3  == SubSeq(rest2, dx + 1, Len(rest2))
      host   == <<"d","o","i",".","o","r","g","/">>
  IN IF slashes > 0 /\ StartsWith(rest3, host) THEN scheme + slashes + dx + Len(host) ELSE 0

\* cleanDOI of SourceImportModal.lookupDoi
CleanLookupDoi(doi) == SubSeq(doi, DoiUrlMatch(doi) + 1, Len(doi))

\* the value the BIB_FIELDS loop assigns to citationEntry[bibField], UndefV when it assigns none
LoopValue(frontmatter, mappings, bibField) ==
  LET value == FmGet(frontmatter, MappedKey(mappings, bibField))
  IN IF ~(HasMapping(mappings, bibField) /\ Truthy(value)) THEN UndefV
     ELSE IF bibField = "author" /\ value.t = "arr" THEN value
     ELSE IF bibField = "keyword" /\ value.t = "arr" THEN value
     ELSE IF value.t = "arr" /\ Len(value.v) > 0 THEN StrV(Join(value.v, <<",", " ">>))
     ELSE IF value.t # "arr" /\ Trim(StringOf(value)) # <<>> THEN value
     ELSE UndefV

\* the ids of the fields the last loop iterates over
FieldSeqRange(fields) == { fields[i] : i \in DOMAIN fields }

\* the fields walked by `for (const bibField of BIB_FIELDS)`
LoopFields(mappings) == FieldSeqRange(BIB_FIELDS)

\* citationEntry.issued, UndefV when not set
IssuedValue(frontmatter, mappings) ==
  LET yearKey == IF HasMapping(mappings, "issued") THEN mappings["issued"] ELSE "year"
      y == FmGet(frontmatter, yearKey)
  IN IF ~Truthy(y) THEN UndefV
     ELSE IF y.t = "str"
       THEN (LET yearMatch == MatchFourDigits(y.v[1])
             IN IF IsSome(yearMatch) THEN StrV(Val(yearMatch)) ELSE UndefV)
     ELSE IF y.t = "num" THEN y
     ELSE UndefV

\* citationEntry.DOI, UndefV when not set
DoiValue(frontmatter, mappings) ==
  LET doiKey == IF HasMapping(mappings, "DOI") THEN mappings["DOI"] ELSE "doi"
      d == FmGet(frontmatter, doiKey)
  IN IF Truthy(d) /\ d.t = "str" THEN StrV(CleanExportedDoi(d.v[1])) ELSE UndefV

\* citationEntry.id
EntryId(frontmatter, mappings) ==
  OrElse(FmGet(frontmatter, MappedKey(mappings, "id")), FmGet(frontmatter, "citekey"))

\* SourceService.convertFrontmatterToCitationJS for a frontmatter with a
\* citekey: the entry as a function from its field names to their values
convertFrontmatterToCitationJS(frontmatter, mappings) ==
  LET values == [f \in LoopFields(mappings) |-> LoopValue(frontmatter, mappings, f)]
      looped == { f \in DOMAIN values : values[f].t # "undef" }
      fromLoop == [f \in looped |-> values[f]]
      head == ("id" :> EntryId(frontmatter, mappings))
                @@ ("type" :> mapToBibTeXType(
                                OrElse(FmGet(frontmatter, MappedKey(mappings, "type")),
                                       FmGet(frontmatter, "bibtype")),
                                CategoryFirst(frontmatter)))
      issuedValue == IssuedValue(frontmatter, mappings)
      issued == IF issuedValue.t # "undef" THEN ("issued" :> issuedValue) ELSE <<>>
      doiValue == DoiValue(frontmatter, mappings)
      doi == IF doiValue.t # "undef" THEN ("DOI" :> doiValue) ELSE <<>>
  IN Override(Override(Override(head, fromLoop), issued), doi)

\* a key comparison that finds no key present (bug variant)
SameValueNever(a, b) == FALSE

\* Map.has / Set.has (SameValueZero): arrays are equal only to themselves
SameValue(a, b) == a.t # "arr" /\ a = b

\* the first loop of generateBibliography over sourceFiles[1..n]:
\* [entries, seen, duplicatesFound], an entry being [src, fields]
RECURSIVE CollectEntries(_, _, _, _)
CollectEntries(files, sourceFiles, mappings, n) ==
  IF n = 0 THEN [entries |-> <<>>, seen |-> <<>>, duplicatesFound |-> 0]
  ELSE LET prev    == CollectEntries(files, sourceFiles, mappings, n - 1)
           file    == files[sourceFiles[n]]
           citekey == CachedCitekey(file)
       IN IF ~IsSome(file.fm) \/ ~Truthy(citekey) THEN prev
          ELSE IF \E j \in DOMAIN prev.seen : SameValue(prev.seen[j], citekey)
            THEN [prev EXCEPT !.duplicatesFound = @ + 1]
            ELSE [entries |-> Append(prev.entries,
                                     [src |-> sourceFiles[n],
                                      fields |-> convertFrontmatterToCitationJS(Val(file.fm), mappings)]),
                  seen |-> Append(prev.seen, citekey),
                  duplicatesFound |-> prev.duplicatesFound]

\* the deduplication loop of generateBibliography: first entry of each id
RECURSIVE UniqueById(_)
UniqueById(entries) ==
  IF entries = <<>> THEN <<>>
  ELSE LET init == UniqueById(SubSeq(entries, 1, Len(entries) - 1))
           last == entries[Len(entries)]
       IN IF \E j \in DOMAIN init : SameValue(init[j].fields["id"], last.fields["id"])
            THEN init
            ELSE Append(init, last)

\* a generation that reports duplicates on the console only (bug variant)
generateBibliographySilent(files, existingFolders, sourcesFolder, mappings) ==
  LET sourceFiles == findAllSourceFiles(files, existingFolders, sourcesFolder)
      collected   == CollectEntries(files, sourceFiles, mappings, Len(sourceFiles))
  IN [sourceFiles |-> sourceFiles,
      citeData |-> UniqueById(collected.entries),
      duplicatesFound |-> collected.duplicatesFound,
      warnings |-> IF collected.duplicatesFound > 0 THEN 1 ELSE 0,
      notices |-> 0]

\* SourceService.generateBibliography up to the hand-over of citeData to
\* citation-js: the entries, the number of console warnings and of notices
generateBibliography(files, existingFolders, sourcesFolder, mappings) ==
  LET sourceFiles == findAllSourceFiles(files, existingFolders, sourcesFolder)
      collected   == CollectEntries(files, sourceFiles, mappings, Len(sourceFiles))
  IN IF collected.duplicatesFound > 0
       THEN [sourceFiles |-> sourceFiles,
             citeData |-> UniqueById(collected.entries),
             duplicatesFound |-> collected.duplicatesFound,
             warnings |-> 1,
             notices |-> 1]
       ELSE [sourceFiles |-> sourceFiles,
             citeData |-> collected.entries,
             duplicatesFound |-> 0,
             warnings |-> 0,
             notices |-> 0]

\* ------------------------------------------------------------------------
\* The frontmatter the metadata cache reads from a created note
\* ------------------------------------------------------------------------

\* position of the quote that closes a double-quoted scalar, searched from i; 0 when none
RECURSIVE ClosingQuote(_, _)
ClosingQuote(s, i) ==
  IF i > Len(s) THEN 0
  ELSE IF s[i] = "\\" THEN ClosingQuote(s, i + 2)
  ELSE IF s[i] = "\"" THEN i
  ELSE ClosingQuote(s, i + 1)

\* the text of a double-quoted scalar: \x stands for x
RECURSIVE Unescape(_)
Unescape(s) ==
  IF s = <<>> THEN <<>>
  ELSE IF s[1] = "\\" /\ Len(s) >= 2 THEN <<s[2]>> \o Unescape(SubSeq(s, 3, Len(s)))
  ELSE <<s[1]>> \o Unescape(Tail(s))

\* a double-quoted scalar: text after the closing quote makes the YAML invalid (None)
QuotedScalar(t) ==
  LET c == ClosingQuote(t, 2)
  IN IF c = Len(t) THEN Some(StrV(Unescape(SubSeq(t, 2, c - 1)))) ELSE None

IsNumberText(t) ==
  /\ t # <<>>
  /\ \A i \in DOMAIN t : IsDigit(t[i])
  /\ Len(t) = 1 \/ t[1] # "0"

\* a plain scalar: a number or a text; a ": " inside it makes the YAML invalid
PlainScalar(t) ==
  IF t[Len(t)] = ":" \/ \E i \in 1..(Len(t) - 1) : t[i] = ":" /\ t[i + 1] = " "
    THEN None
    ELSE Some(IF IsNumberText(t) THEN NumV(t) ELSE StrV(t))

\* the items of a flow sequence, None when it is invalid
RECURSIVE FlowItems(_)
FlowItems(s) ==
  LET t == TrimStart(s)
  IN IF t = <<>> THEN Some(<<>>)
     ELSE IF t[1] = "\""
       THEN LET c    == ClosingQuote(t, 2)
                rest == TrimStart(SubSeq(t, c + 1, Len(t)))
                more == FlowItems(Tail(rest))
            IN IF c = 0 THEN None
               ELSE IF rest = <<>> THEN Some(<<Unescape(SubSeq(t, 2, c - 1))>>)
               ELSE IF rest[1] = "," /\ IsSome(more)
                 THEN Some(<<Unescape(SubSeq(t, 2, c - 1))>> \o Val(more))
               ELSE None
       ELSE LET c    == FindFrom(t, ",", 1)
                more == FlowItems(SubSeq(t, c + 1, Len(t)))
            IN IF c = 0 THEN Some(<<TrimEnd(t)>>)
               ELSE IF IsSome(more)
                 THEN Some(<<TrimEnd(SubSeq(t, 1, c - 1))>> \o Val(more))
               ELSE None

\* the value of one frontmatter line: null for an empty value, a quoted or
\* plain scalar or a flow sequence of texts; None when the line is invalid
ReadYamlValue(text) ==
  LET t     == Trim(text)
      items == FlowItems(SubSeq(t, 2, Len(t) - 1))
  IN IF t = <<>> THEN Some(UndefV)
     ELSE IF t[1] = "\"" THEN QuotedScalar(t)
     ELSE IF t[1] = "["
       THEN (IF t[Len(t)] = "]" /\ IsSome(items) THEN Some(ArrV(Val(items))) ELSE None)
     ELSE PlainScalar(t)

\* cache.frontmatter of a note with the given frontmatter lines: None when a line is invalid
ReadFrontmatter(lines) ==
  LET values == [i \in DOMAIN lines |-> ReadYamlValue(lines[i].value)]
  IN IF \E i \in DOMAIN lines : ~IsSome(values[i])
       THEN None
       ELSE Some([k \in { lines[i].key : i \in DOMAIN lines } |->
                    Val(values[CHOOSE i \in DOMAIN lines : lines[i].key = k])])

\* ------------------------------------------------------------------------
\* Import (utils/soureImporter.ts, utils/template.ts)
\* ------------------------------------------------------------------------

\* loadTemplateFile: the default template, or the content of the template file when it exists
loadTemplateFile(st, files) ==
  IF Trim(st.templateFile) # <<>> /\ st.templateFile \in DOMAIN files
    THEN [st EXCEPT !.sourceNoteTemplate = files[st.templateFile]]
    ELSE [st EXCEPT !.sourceNoteTemplate = DEFAULT_SETTINGS.sourceNoteTemplate]

\* loadTemplateFile up to its first await: "Always reset to default template first"
ResetTemplate(st) == [st EXCEPT !.sourceNoteTemplate = DEFAULT_SETTINGS.sourceNoteTemplate]

\* plugin.settings.templateFile && plugin.settings.templateFile.trim() !== ""
TemplateFileSet(st) == st.templateFile # <<>> /\ Trim(st.templateFile) # <<>>

\* the run that waits for vault.adapter.exists(plugin.settings.templateFile)
AwaitingExists(owner, st, others) ==
  [owner |-> owner, pc |-> "exists", path |-> st.templateFile, alone |-> others = <<>>]

\* the run after exists resolved with true: it waits for
\* vault.adapter.read(plugin.settings.templateFile), the setting read anew
AwaitingRead(run, st) == [run EXCEPT !.pc = "read", !.path = st.templateFile]

\* the settings after read settled: the content read, or the default
\* template of the catch block when read threw
TemplateRead(st, files, path) ==
  IF path \in DOMAIN files
    THEN [st EXCEPT !.sourceNoteTemplate = files[path]]
    ELSE [st EXCEPT !.sourceNoteTemplate = DEFAULT_SETTINGS.sourceNoteTemplate]

\* the names of source data fields as template variables
FieldName ==
  ("title" :> <<"t","i","t","l","e">>)
    @@ ("author" :> <<"a","u","t","h","o","r">>)
    @@ ("year" :> <<"y","e","a","r">>)
    @@ ("citekey" :> <<"c","i","t","e","k","e","y">>)
    @@ ("type" :> <<"t","y","p","e">>)
    @@ ("doi" :> <<"d","o","i">>)
    @@ ("journal" :> <<"j","o","u","r","n","a","l">>)
    @@ ("publisher" :> <<"p","u","b","l","i","s","h","e","r">>)
    @@ ("pages" :> <<"p","a","g","e","s">>)
    @@ ("volume" :> <<"v","o","l","u","m","e">>)
    @@ ("issue" :> <<"i","s","s","u","e">>)
    @@ ("isbn" :> <<"i","s","b","n">>)
    @@ ("url" :> <<"u","r","l">>)
    @@ ("abstract" :> <<"a","b","s","t","r","a","c","t">>)
    @@ ("keywords" :> <<"k","e","y","w","o","r","d","s">>)

\* source[field]
SrcGet(source, field) ==
  IF FieldName[field] \in DOMAIN source THEN source[FieldName[field]] ELSE UndefV

\* the authors argument: an array, or a string indexed by character
AuthorsArg(val) ==
  IF val.t = "arr" THEN val.v
  ELSE IF val.t = "str" THEN [i \in DOMAIN val.v[1] |-> <<val.v[1][i]>>]
  ELSE <<>>

\* the yaml object of SourceImporter.generateSourceMarkdown
generateSourceMarkdown(source) ==
  LET optional == { f \in {"doi", "journal", "publisher", "pages", "volume", "issue", "isbn", "url", "abstract", "keywords"} : Truthy(SrcGet(source, f)) }
  IN Override(("title" :> SrcGet(source, "title"))
                @@ ("author" :> OrElse(SrcGet(source, "author"), ArrV(<<>>)))
                @@ ("year" :> SrcGet(source, "year"))
                @@ ("citekey" :> SrcGet(source, "citekey"))
                @@ ("type" :> OrElse(SrcGet(source, "type"), StrV(<<"m","i","s","c">>)))
                @@ ("tags" :> ArrV(<<<<"s","o","u","r","c","e">>>>)),
              [f \in optional |-> SrcGet(source, f)])

\* the frontmatter lines of SourceImporter.generateSourceFromTemplate
generateSourceFromTemplate(template, source) ==
  LET templateData == ImporterTemplateData(source)
  IN [i \in DOMAIN template |->
        [key   |-> template[i].key,
         value |-> renderTemplateWithRegex(template[i].value, templateData)]]

\* SourceImporter.createSourceFile: whether it throws before touching the
\* vault, the folder it ensures, whether vault.create finds the path taken,
\* and the citekey and the file it creates otherwise
\* a vault in which no path is ever taken (bug variant)
FileExistsNever(files, dir, name) == FALSE

\* app.vault.create fails with "File already exists." when the path is taken
FileExists(files, dir, name) ==
  \E i \in DOMAIN files :
    files[i].dir = dir /\ files[i].name = name /\ files[i].ext = "md"

createSourceFile(files, sourcesFolder, template, sourceData, mediaType) ==
  LET throws   == SrcGet(sourceData, "year").t = "undef" \/ SrcGet(sourceData, "title").t # "str"
      citekey  == generateFromTitleAndAuthors(
                    TitleText(sourceData),
                    AuthorsArg(OrElse(SrcGet(sourceData, "author"), ArrV(<<>>))),
                    StringOf(SrcGet(sourceData, "year")))
      filename == sanitizeFilename(TitleText(sourceData))
      targetFolder == sourcesFolder \o <<mediaType>>
      source   == Override(sourceData, (nCitekey :> StrV(citekey)))
  IN [throws       |-> throws,
      targetFolder |-> targetFolder,
      exists       |-> ~throws /\ FileExists(files, targetFolder, filename),
      citekey      |-> IF throws THEN <<>> ELSE citekey,
      file         |-> IF throws THEN None
                       ELSE Some([dir  |-> targetFolder,
                                  name |-> filename,
                                  ext  |-> "md",
                                  fm   |-> IF template # <<>>
                                             THEN ReadFrontmatter(
                                                    generateSourceFromTemplate(template, source))
                                             ELSE Some(generateSourceMarkdown(source))])]

\* ------------------------------------------------------------------------
\* The Generate-citekey command (main.ts)
\* ------------------------------------------------------------------------

\* Number.prototype.toString
RECURSIVE NatText(_)
NatText(n) ==
  IF n < 10 THEN <<Digits[n + 1]>>
  ELSE NatText(n \div 10) \o <<Digits[(n % 10) + 1]>>

\* a year that is always the current one (bug variant)
CommandYearFromClock(yaml, thisYear) == NatText(thisYear)

\* (yaml.year || new Date().getFullYear()).toString()
CommandYear(yaml, thisYear) ==
  IF Truthy(FmGet(yaml, "year")) THEN StringOf(FmGet(yaml, "year")) ELSE NatText(thisYear)

\* yaml.title || file.basename
CommandTitle(file) ==
  IF Truthy(FmGet(Val(file.fm), "title")) THEN StringOf(FmGet(Val(file.fm), "title"))
  ELSE file.name

\* yaml.author || []
CommandAuthors(yaml) == AuthorsArg(OrElse(FmGet(yaml, "author"), ArrV(<<>>)))

\* the command goes on to generate: frontmatter found and parsed, authors.length not 0
CommandGenerates(file) ==
  /\ IsSome(file.fm)
  /\ FmGet(Val(file.fm), "author").t \in {"arr", "str"}
  /\ Len(CommandAuthors(Val(file.fm))) # 0

\* the citekey the command generates
CommandCitekey(file, thisYear) ==
  generateFromTitleAndAuthors(CommandTitle(file), CommandAuthors(Val(file.fm)),
                              CommandYear(Val(file.fm), thisYear))

\* yaml.aliases after the command
CommandAliases(aliases, citekey) ==
  LET alias == <<"@">> \o citekey
  IN IF ~Truthy(aliases) THEN ArrV(<<alias>>)
     ELSE IF aliases.t = "arr"
       THEN (IF alias \in Range(aliases.v) THEN aliases ELSE ArrV(Append(aliases.v, alias)))
     ELSE IF aliases.t = "str" THEN ArrV(<<aliases.v[1], alias>>)
     ELSE ArrV(<<alias>>)

\* GenerateCitekeyCommand.execute: the file with citekey and aliases written
\* to its frontmatter
GenerateCitekeyExecute(file, thisYear) ==
  [file EXCEPT !.fm =
     Some(Override(Val(file.fm),
                   ("citekey" :> StrV(CommandCitekey(file, thisYear)))
                     @@ ("aliases" :> CommandAliases(FmGet(Val(file.fm), "aliases"),
                                                     CommandCitekey(file, thisYear)))))]

\* ------------------------------------------------------------------------
\* Unique filenames (sourceService.ts)
\* ------------------------------------------------------------------------

\* `${filename}.md`
MdName(filename) == filename \o <<".","m","d">>

\* a suffix that always carries the counter (bug variant)
CopyNameNumbered(baseFilename, counter) ==
  baseFilename \o <<" ","(","c","o","p","y"," ">> \o NatText(counter) \o <<")">>

\* the filename the loop of getUniqueFilename tries next for a counter
CopyName(baseFilename, counter) ==
  IF counter = 1
    THEN baseFilename \o <<" ","(","c","o","p","y",")">>
    ELSE baseFilename \o <<" ","(","c","o","p","y"," ">> \o NatText(counter) \o <<")">>

\* the while loop of getUniqueFilename from a filename and a counter:
\* vault.getAbstractFileByPath finds files and folders alike
RECURSIVE UniqueFrom(_, _, _, _)
UniqueFrom(entries, baseFilename, filename, counter) ==
  IF MdName(filename) \notin DOMAIN entries THEN filename
  ELSE UniqueFrom(entries, baseFilename, CopyName(baseFilename, counter), counter + 1)

\* SourceService.getUniqueFilename; the folder is None when
\* getAbstractFileByPath(folderPath) is not a TFolder
getUniqueFilename(folder, baseFilename) ==
  IF ~IsSome(folder) THEN baseFilename
  ELSE UniqueFrom(Val(folder), baseFilename, baseFilename, 1)

\* ------------------------------------------------------------------------
\* The API (utils/api.ts, types/interfaces.ts)
\* ------------------------------------------------------------------------

\* BIBLIOGRAPHY_FORMAT_MAPPING
BIBLIOGRAPHY_FORMAT_MAPPING ==
  (<<".","b","i","b">> :> "bibtex")
    @@ (<<".","b","i","b","t","e","x">> :> "bibtex")
    @@ (<<".","j","s","o","n">> :> "csl-json")
    @@ (<<".","y","a","m","l">> :> "hayagriva")
    @@ (<<".","y","m","l">> :> "hayagriva")

\* FORMAT_EXTENSION_MAPPING
FORMAT_EXTENSION_MAPPING ==
  ("bibtex" :> <<".","b","i","b">>) @@ ("csl-json" :> <<".","j","s","o","n">>) @@ ("hayagriva" :> <<".","y","a","m","l">>)

\* The value of `this` in the arrow functions of createAPI is the `this` of
\* the call createAPI(plugin), a plain function call: undefined in strict
\* code (None), the global object in sloppy code (an object, here the
\* function from its property names to their values).
GlobalObject == <<>>

ThisBindings == { None, Some(GlobalObject) }

\* this.<property> is an object that has the property
ThisHas(this, property) == IsSome(this) /\ property \in DOMAIN Val(this)

\* outputFilename.toLowerCase().substring(outputFilename.lastIndexOf("."))
FilenameExtension(outputFilename) ==
  SubstringFrom(ToLowerCase(outputFilename), LastIndexOf(outputFilename, "."))

Rejected(error) == [rejected |-> TRUE, error |-> error, format |-> None, citeData |-> <<>>]

\* BIBLIOGRAPHY_FORMAT_MAPPING[ext], None when undefined
DetectedFormat(outputFilename) ==
  LET ext == FilenameExtension(outputFilename)
  IN IF ext \in DOMAIN BIBLIOGRAPHY_FORMAT_MAPPING
       THEN Some(BIBLIOGRAPHY_FORMAT_MAPPING[ext])
       ELSE None

\* createAPI(...).exportBibliography: how the returned promise settles and,
\* when generateBibliography was called, the format handed to it.  An
\* argument left out, undefined or null is None; format "" is Some("").
exportBibliography(this, files, existingFolders, sourcesFolder, outputFilename, format) ==
  LET formatGiven   == IsSome(format) /\ Val(format) # ""
      filenameGiven == IsSome(outputFilename) /\ Val(outputFilename) # <<>>
  IN IF ~IsSome(sourcesFolder) /\ ~ThisHas(this, "settings")
       THEN Rejected("TypeError")
     ELSE IF ~formatGiven /\ ~ThisHas(this, "settings")
       THEN Rejected("TypeError")
     ELSE IF ~formatGiven /\ filenameGiven /\ ~IsSome(DetectedFormat(Val(outputFilename)))
       THEN Rejected("Unsupported file extension")
     ELSE IF ~ThisHas(this, "sourceService")
       THEN Rejected("TypeError")
     ELSE LET folder    == IF IsSome(sourcesFolder) THEN Val(sourcesFolder)
                           ELSE Val(this)["settings"].sourcesFolder
              bibFormat == IF formatGiven THEN Val(format)
                           ELSE IF filenameGiven THEN Val(DetectedFormat(Val(outputFilename)))
                           ELSE Val(this)["settings"].bibliographyFormat
              generation == generateBibliography(files, existingFolders, folder,
                                                 Val(this)["settings"].fieldMappings)
          IN IF generation.citeData = <<>>
               THEN [rejected |-> TRUE, error |-> "No sources found",
                     format |-> Some(bibFormat), citeData |-> <<>>]
               ELSE [rejected |-> FALSE, error |-> "",
                     format |-> Some(bibFormat), citeData |-> generation.citeData]

\* FORMAT_EXTENSION_MAPPING[bibFormat] || ".bib"
ExtensionOf(bibFormat) ==
  IF bibFormat \in DOMAIN FORMAT_EXTENSION_MAPPING
    THEN FORMAT_EXTENSION_MAPPING[bibFormat]
    ELSE <<".","b","i","b">>

\* the text citation-js formats: the entries in the given format
BibContent(format, citeData) == [format |-> format, citeData |-> citeData]

NotWritten(error) == [rejected |-> TRUE, error |-> error, folder |-> None, filename |-> None, content |-> None]

\* createAPI(...).exportBibliographyToPath: how the returned promise
\* settles, and the folder it ensures and the file it writes when it gets
\* that far
exportBibliographyToPath(this, files, existingFolders, sourcesFolder, outputFilename, format) ==
  IF ~ThisHas(this, "api") THEN NotWritten("TypeError")
  ELSE LET generation == exportBibliography(this, files, existingFolders,
                                            sourcesFolder, outputFilename, format)
       IN IF generation.rejected THEN NotWritten(generation.error)
          ELSE LET folder    == IF IsSome(sourcesFolder) THEN Val(sourcesFolder)
                                ELSE Val(this)["settings"].sourcesFolder
                   bibFormat == IF IsSome(format) /\ Val(format) # "" THEN Val(format)
                                ELSE Val(this)["settings"].bibliographyFormat
                   filename  == IF IsSome(outputFilename) /\ Val(outputFilename) # <<>>
                                  THEN Val(outputFilename)
                                  ELSE <<"b","i","b","l","i","o","g","r","a","p","h","y">> \o ExtensionOf(bibFormat)
               IN [rejected |-> FALSE, error |-> "",
                   folder |-> Some(folder), filename |-> Some(filename),
                   content |-> Some(BibContent(Val(generation.format), generation.citeData))]

\* ------------------------------------------------------------------------
\* Writing the bibliography file (ui/importModal.ts, main.ts)
\* ------------------------------------------------------------------------

\* a folder setting that is always the sources folder (bug variant)
OutputFolderOfSources(st) == st.sourcesFolder

\* settings.bibliographyOutputFolder || settings.sourcesFolder
OutputFolderOf(st) ==
  IF st.bibliographyOutputFolder # <<>> THEN st.bibliographyOutputFolder ELSE st.sourcesFolder

\* `${settings.bibliographyFilename}${extension}`
BibFilename(st) == st.bibliographyFilename \o ExtensionOf(st.bibliographyFormat)

\* BibliographyExportModal.exportBibliography: the file it writes
DialogExport(st, bibContent) ==
  [folder |-> OutputFolderOf(st), filename |-> BibFilename(st), content |-> bibContent]

\* a callback that writes whatever the sources gave, empty text included
\* (bug variant)
CommandExportUnchecked(this, st, files, existingFolders) ==
  Some([folder   |-> OutputFolderOf(st),
        filename |-> BibFilename(st),
        content  |-> BibContent(st.bibliographyFormat,
                                generateBibliography(files, existingFolders, st.sourcesFolder,
                                                     st.fieldMappings).citeData)])

\* the callback of the command generate-bibliography-file: the file it
\* writes, None when plugin.api.exportBibliography() rejects
CommandExport(this, st, files, existingFolders) ==
  LET generation == exportBibliography(this, files, existingFolders, None, None, None)
  IN IF generation.rejected THEN None
     ELSE Some([folder   |-> OutputFolderOf(st),
                filename |-> BibFilename(st),
                content  |-> BibContent(Val(generation.format), generation.citeData)])

\* ------------------------------------------------------------------------
\* The import dialog (ui/importModal.ts)
\* ------------------------------------------------------------------------

ImportedNotice == "Source imported"

DuplicateNotice == "Duplicate Source Detected"

ImportErrorNotice == "Error importing source"

\* the notice importSource shows for the outcome of createSourceFile
ImportNotice(created) ==
  IF created.throws THEN ImportErrorNotice
  ELSE IF created.exists THEN DuplicateNotice
  ELSE ImportedNotice

\* the dialog's source data with one field set
WithField(sourceData, field, val) == Override(sourceData, (FieldName[field] :> val))

\* value.split(";").map((a) => a.trim()) of the Authors field
AuthorsOfText(text) ==
  LET raw == Split(text, ";") IN ArrV([i \in DOMAIN raw |-> Trim(raw[i])])

\* title && author && year of the Generate button and of processCitationData
HasRequiredData(sourceData) ==
  /\ Truthy(SrcGet(sourceData, "title"))
  /\ Truthy(SrcGet(sourceData, "author"))
  /\ Truthy(SrcGet(sourceData, "year"))

\* CitekeyGenerator.generateFromTitleAndAuthors on the dialog's title, authors and year
DialogCitekey(sourceData) ==
  StrV(generateFromTitleAndAuthors(TitleText(sourceData),
                                   AuthorsArg(SrcGet(sourceData, "author")),
                                   StringOf(SrcGet(sourceData, "year"))))

\* processCitationData, for the fields the citekey and the path of the note
\* depend on: a field of the citation replaces the dialog's, and a citekey is
\* generated only when the dialog holds none
processCitationData(sourceData, citationData) ==
  LET s1 == IF IsSome(citationData.title)
              THEN WithField(sourceData, "title", StrV(Val(citationData.title)))
              ELSE sourceData
      s2 == IF IsSome(citationData.author)
              THEN WithField(s1, "author", ArrV(Val(citationData.author)))
              ELSE s1
      s3 == IF IsSome(citationData.year)
              THEN WithField(s2, "year", StrV(Val(citationData.year)))
              ELSE s2
  IN IF ~Truthy(SrcGet(s3, "citekey")) /\ HasRequiredData(s3)
       THEN WithField(s3, "citekey", DialogCitekey(s3))
       ELSE s3

\* ------------------------------------------------------------------------
\* The plugin's life (main.ts, README.md)
\* ------------------------------------------------------------------------

\* the id under which the application registers the plugin
PluginId == "bibliography-manager"

\* an API object without exportBibliographyToPath (bug variant)
createAPIContentOnly == { "description", "exportBibliography" }

\* the properties of the object createAPI returns
createAPI == { "description", "exportBibliography", "exportBibliographyToPath" }

\* the plugin instance the application constructs: its api is not yet set
NewInstance == [api |-> None]

\* this.api = createAPI(this)
WithApi(instance) == [instance EXCEPT !.api = Some(createAPI)]

\* onunload: delete app.plugins.plugins["bibliography-manager"] when present
onunload(registry) == [id \in DOMAIN registry \ {PluginId} |-> registry[id]]

\* ------------------------------------------------------------------------
\* Inputs and initial states: citekey generator
\* ------------------------------------------------------------------------

MaxAuthors == 3

\* Author names as the import dialog and the lookups produce them:
\* "Family, Given", "Given Family" and a bare family name.
AuthorString(a) ==
  IF a.form = "comma" THEN a.family \o <<",", " ">> \o a.given
  ELSE IF a.form = "space" THEN a.given \o <<" ">> \o a.family
  ELSE a.family

AuthorPool ==
  { [family |-> <<"M","o","s","e","r">>, given |-> <<"H","a","n","s">>, form |-> "comma"],
    [family |-> <<"b","a","u","e","r">>, given |-> <<"A","n","n","a">>, form |-> "comma"],
    [family |-> <<"L","I">>, given |-> <<"W","e","i">>, form |-> "comma"],
    [family |-> <<"M","o","s","e","r">>, given |-> <<"A","."," ","B",".">>, form |-> "space"],
    [family |-> <<"s","M","I","T","H">>, given |-> <<"J","o">>, form |-> "space"],
    [family |-> <<"W","a","s","h","i","n","g","t","o","n">>, given |-> <<>>, form |-> "family"] }

YearPool ==
  { <<"2","0","2","2">>, <<"1","9","0","5">>, <<"8","1","4">> }

TitlePool ==
  { <<>>,
    <<" ">>,
    <<"a","b">>,
    <<"D","e","e","p"," ","n","e","t","s">>,
    <<"<","i",">","Z","e","t","a","<","/","i",">",":"," ","x">> }

RECURSIVE SeqsUpTo(_, _)
SeqsUpTo(S, n) ==
  IF n = 0 THEN { <<>> }
  ELSE SeqsUpTo(S, n - 1)
         \cup { Append(q, x) : q \in { r \in SeqsUpTo(S, n - 1) : Len(r) = n - 1 }, x \in S }

CitekeyArgs ==
  [ authors : SeqsUpTo(AuthorPool, MaxAuthors), year : YearPool, title : TitlePool ]

CkInit ==
  /\ ckArgs \in CitekeyArgs
  /\ ckResult = None

CkIdle ==
  /\ ckArgs = [authors |-> <<>>, year |-> <<>>, title |-> <<>>]
  /\ ckResult = None

MaxTitleTokens == 4

\* the pieces titles are put together from: letters, blanks, punctuation,
\* markup openers and closers, and invalid filename characters
TitleTokenPool ==
  { <<"a">>, <<" ">>, <<"-">>, <<":">>, <<";">>, <<"<">>, <<">">>, <<"&">>,
    <<"/">>, <<"\\", "i", "{">>, <<"}">>, <<EmDash>> }

RECURSIVE Flatten(_)
Flatten(pieces) ==
  IF pieces = <<>> THEN <<>> ELSE Head(pieces) \o Flatten(Tail(pieces))

FilenameInit ==
  /\ ckArgs \in { [authors |-> <<>>, year |-> <<>>, title |-> Flatten(pieces)] :
                    pieces \in SeqsUpTo(TitleTokenPool, MaxTitleTokens) }
  /\ ckResult = None

\* the URL forms of a DOI
DoiUrlForms ==
  { <<"h","t","t","p","s",":","/","/","d","o","i",".","o","r","g","/">>,
    <<"h","t","t","p",":","/","/","d","o","i",".","o","r","g","/">>,
    <<"h","t","t","p","s",":","/","/","d","x",".","d","o","i",".","o","r","g","/">>,
    <<"h","t","t","p",":","/","/","d","x",".","d","o","i",".","o","r","g","/">> }

\* the forms a DOI is supplied in: bare, as a URL, or with the doi: label
DoiFormPool == DoiUrlForms \cup { <<>>, <<"d","o","i",":">> }

\* bare DOIs
DoiPool ==
  { <<"1","0",".","1","/","x">>,
    <<"1","0",".","1","/","y">>,
    <<"1","0","/","b","6">>,
    <<"1","0",".","2","/","h","t","t","p">>,
    <<"1","0",".","2","/","a",".","b">>,
    <<"1","0",".","3","/","d","o","i",".","o","r","g","/">> }

DoiInit ==
  /\ doiArgs \in { [form |-> form, doi |-> form \o bare] : form \in DoiFormPool, bare \in DoiPool }
  /\ doiResult = [lookedUp |-> None, exported |-> None]

\* ------------------------------------------------------------------------
\* Inputs and initial states: template rendering
\* ------------------------------------------------------------------------

MaxTokens == 4

\* a template is written as a sequence of tokens: literal text, a
\* {{variable}} placeholder (optionally padded with blanks) or a stray brace
Lit(text) == [kind |-> "lit", text |-> text, pad |-> 0]

Var(name, pad) == [kind |-> "var", text |-> name, pad |-> pad]

Stray(text) == [kind |-> "stray", text |-> text, pad |-> 0]

TokenPool ==
  { Lit(<<"#", " ">>),
    Lit(<<"x">>),
    Var(nTitle, 1),
    Var(nDoi, 0),
    Var(nYear, 0),
    Var(nAuthor, 0),
    Var(nKeywords, 0),
    Var(nFilename, 0),
    Stray(<<"{">>),
    Stray(<<"}">>) }

Blanks(n) == [i \in 1..n |-> " "]

TokenText(tok) ==
  IF tok.kind = "var"
    THEN <<"{", "{">> \o Blanks(tok.pad) \o tok.text \o Blanks(tok.pad) \o <<"}", "}">>
    ELSE tok.text

\* the template file content the tokens spell
RECURSIVE TemplateText(_)
TemplateText(tokens) ==
  IF tokens = <<>> THEN <<>> ELSE TokenText(Head(tokens)) \o TemplateText(Tail(tokens))

SourcePool ==
  { (nTitle :> StrV(<<"O","n"," ","X">>)) @@ (nAuthor :> ArrV(<< <<"A">>, <<"B">> >>))
      @@ (nYear :> NumV(<<"2","0","2","2">>)) @@ (nCitekey :> StrV(<<"A","B","2","2">>))
      @@ (nKeywords :> ArrV(<< <<"k">>, <<"l">>, <<"m">> >>)),
    (nTitle :> StrV(<<"Q">>)) @@ (nAuthor :> UndefV) @@ (nDoi :> UndefV)
      @@ (nYear :> StrV(<<"1","9","9","9">>)) @@ (nCitekey :> StrV(<<"Q","9","9">>)),
    (nTitle :> StrV(<<"a",":","b">>)) @@ (nDoi :> StrV(<<"1","0",".","1","/","z">>)) }

TplInit ==
  /\ tplArgs \in [ tokens : SeqsUpTo(TokenPool, MaxTokens), source : SourcePool ]
  /\ tplResult = None

TplIdle ==
  /\ tplArgs = [tokens |-> <<>>, source |-> <<>>]
  /\ tplResult = None

\* ------------------------------------------------------------------------
\* Inputs and initial states: the vault at export
\* ------------------------------------------------------------------------

MaxFiles == 3

\* files a vault may hold: source notes with equal citekeys at different
\* depths, a note without a citekey, one with an empty citekey, a file that
\* is not markdown and a note outside the sources folder
FilePool ==
  { [dir |-> <<"sources">>, name |-> <<"a">>, ext |-> "md",
     fm |-> Some(("citekey" :> StrV(<<"M","o","s","2","2">>)) @@ ("title" :> StrV(<<"A","l","p","h","a">>)) @@ ("journal" :> StrV(<<"N","a","t","u","r","e">>)) @@ ("year" :> NumV(<<"2","0","2","2">>)) @@ ("author" :> ArrV(<<<<"M","o","s","e","r",","," ","H","a","n","s">>>>)))],
    [dir |-> <<"sources", "Paper">>, name |-> <<"b">>, ext |-> "md",
     fm |-> Some(("citekey" :> StrV(<<"M","o","s","2","2">>)) @@ ("title" :> StrV(<<"B","e","t","a">>)) @@ ("altid" :> StrV(<<"X","1">>)))],
    [dir |-> <<"sources", "Paper", "deep">>, name |-> <<"c">>, ext |-> "md",
     fm |-> Some(("citekey" :> StrV(<<"L","i","0","5">>)) @@ ("title" :> StrV(<<"G","a","m","m","a">>)) @@ ("periodical" :> StrV(<<"S","c","i","e","n","c","e">>)) @@ ("altid" :> StrV(<<"X","1">>)) @@ ("doi" :> StrV(<<"d","o","i",":"," ","1","0",".","1","/","x">>)))],
    [dir |-> <<"sources">>, name |-> <<"d">>, ext |-> "md",
     fm |-> Some(("title" :> StrV(<<"D","e","l","t","a">>)))],
    [dir |-> <<"sources">>, name |-> <<"e">>, ext |-> "pdf",
     fm |-> None],
    [dir |-> <<"notes">>, name |-> <<"f">>, ext |-> "md",
     fm |-> Some(("citekey" :> StrV(<<"O","u","t","1">>)) @@ ("title" :> StrV(<<"Z","e","t","a">>)))],
    [dir |-> <<"sources", "Book">>, name |-> <<"g">>, ext |-> "md",
     fm |-> Some(("citekey" :> StrV(<<>>)) @@ ("title" :> StrV(<<"E","t","a">>)))],
    [dir |-> <<"sources", "Book">>, name |-> <<"h">>, ext |-> "md",
     fm |-> Some(("citekey" :> StrV(<<"L","i","0","5">>)) @@ ("title" :> StrV(<<"T","h","e","t","a">>)) @@ ("year" :> StrV(<<"M","a","y"," ","1","9","0","5">>)))] }

\* the sequences of 0..n distinct elements of S
RECURSIVE DistinctSeqs(_, _)
DistinctSeqs(S, n) ==
  IF n = 0 THEN { <<>> }
  ELSE LET shorter == DistinctSeqs(S, n - 1)
       IN shorter \cup UNION { { Append(q, x) : x \in S \ Range(q) } :
                               q \in { r \in shorter : Len(r) = n - 1 } }

ThisYear == 2026

\* frontmatter keys a user may type into a field mapping row; a blank row is ""
MappingKeyPool == { "", "altid" }

\* the mapping rows the model edits
MappingFieldPool == { "container-title", "id", "title" }

VaultIdle ==
  /\ vault = <<>>
  /\ folders = {}
  /\ settings = DEFAULT_SETTINGS
  /\ templateFiles = <<>>
  /\ exported = None
  /\ now = ThisYear
  /\ imported = {}
  /\ generated = <<>>

ExportInit ==
  /\ vault \in DistinctSeqs(FilePool, MaxFiles)
  /\ folders \in { {}, { <<"sources">> } }
  /\ settings = DEFAULT_SETTINGS
  /\ templateFiles = <<>>
  /\ exported = None
  /\ now = ThisYear
  /\ imported = {}
  /\ generated = <<>>

\* ------------------------------------------------------------------------
\* Inputs and initial states: import and the Generate-citekey command
\* ------------------------------------------------------------------------

MaxNotes == 2

MaxYears == 2

\* the data of the import dialog: two sources with the same author and year,
\* a title with quotes, and a source without authors whose abstract has a colon
SourceDataPool ==
  { ((<<"t","i","t","l","e">> :> StrV(<<"A","l","p","h","a">>))
       @@ (<<"a","u","t","h","o","r">> :> ArrV(<<<<"M","o","s","e","r",","," ","H","a","n","s">>>>))
       @@ (<<"y","e","a","r">> :> StrV(<<"2","0","2","2">>))
       @@ (<<"j","o","u","r","n","a","l">> :> StrV(<<"N","a","t","u","r","e">>))),
    ((<<"t","i","t","l","e">> :> StrV(<<"B","e","t","a">>))
       @@ (<<"a","u","t","h","o","r">> :> ArrV(<<<<"M","o","s","e","r",","," ","H","a","n","s">>>>))
       @@ (<<"y","e","a","r">> :> NumV(<<"2","0","2","2">>))),
    ((<<"t","i","t","l","e">> :> StrV(<<"S","a","y"," ","\"","h","i","\"">>))
       @@ (<<"a","u","t","h","o","r">> :> ArrV(<<<<"L","i",","," ","W","e","i">>>>))
       @@ (<<"y","e","a","r">> :> StrV(<<"2","0","0","5">>))),
    ((<<"t","i","t","l","e">> :> StrV(<<"G","a","m","m","a">>))
       @@ (<<"a","u","t","h","o","r">> :> ArrV(<<>>))
       @@ (<<"y","e","a","r">> :> StrV(<<"2","0","2","2">>))
       @@ (<<"a","b","s","t","r","a","c","t">> :> StrV(<<"A","i","m",":"," ","x">>))) }

\* the media types of the dialog the model picks from
MediaTypePool == { "default", "Paper" }

\* the vault before the first import: empty, or one note written by hand with
\* authors, without or with a year
HandWrittenVaults ==
  { <<>>,
    << [dir |-> <<"sources">>, name |-> <<"h","a","n","d">>, ext |-> "md",
        fm |-> Some(("title" :> StrV(<<"N","o","t","e","s">>)) @@ ("author" :> ArrV(<<<<"M","o","s","e","r",","," ","H","a","n","s">>>>)))] >>,
    << [dir |-> <<"sources">>, name |-> <<"d","a","t","e","d">>, ext |-> "md",
        fm |-> Some(("title" :> StrV(<<"D","a","t","e","d">>)) @@ ("author" :> ArrV(<<<<"L","i",","," ","W","e","i">>, <<"M","o","s","e","r",","," ","H","a","n","s">>>>)) @@ ("year" :> NumV(<<"2","0","0","5">>)))] >> }

\* prior forms of the aliases field of a hand-written note whose citekey
\* will be LiMo05: a list without and with the alias, a single string that
\* is another alias and one that is the alias itself
AliasesPool ==
  { ArrV(<<<<"n","i","c","k">>>>),
    ArrV(<<<<"n","i","c","k">>, <<"@","L","i","M","o","0","5">>>>),
    StrV(<<"n","i","c","k">>),
    StrV(<<"@","L","i","M","o","0","5">>) }

\* the hand-written note with a year, with an aliases field
AliasedVaults ==
  { << [dir |-> <<"sources">>, name |-> <<"d","a","t","e","d">>, ext |-> "md",
        fm |-> Some(("title" :> StrV(<<"D","a","t","e","d">>)) @@ ("author" :> ArrV(<<<<"L","i",","," ","W","e","i">>, <<"M","o","s","e","r",","," ","H","a","n","s">>>>)) @@ ("year" :> NumV(<<"2","0","0","5">>)) @@ ("aliases" :> aliases))] >> :
    aliases \in AliasesPool }

\* the path of a file
PathOf(file) == <<file.dir, file.name, file.ext>>

\* the title, authors and year of a note as its frontmatter has them
Attributes(file) ==
  [title  |-> FmGet(Val(file.fm), "title"),
   author |-> FmGet(Val(file.fm), "author"),
   year   |-> FmGet(Val(file.fm), "year")]

\* the last two generations of a note's citekey, with one more
Remember(history, path, record) ==
  LET before == IF path \in DOMAIN history THEN history[path] ELSE <<>>
  IN Override(history,
              (path :> IF before = <<>> THEN <<record>> ELSE <<record, before[1]>>))

\* a function without the argument x
Without(f, x) == [y \in DOMAIN f \ {x} |-> f[y]]

\* the vault when the command is first used: one note, written by hand or
\* created by the import of a source of the pool into the empty vault
CommandInit ==
  \E sourceData \in SourceDataPool, mediaType \in MediaTypePool, byHand \in HandWrittenVaults \cup AliasedVaults :
    LET created == createSourceFile(<<>>, DEFAULT_SETTINGS.sourcesFolder,
                                    DEFAULT_SETTINGS.sourceNoteTemplate, sourceData, mediaType)
        file    == Val(created.file)
    IN /\ \/ /\ byHand # <<>>
             /\ vault = byHand
             /\ folders = { <<"sources">> }
             /\ imported = {}
             /\ generated = <<>>
          \/ /\ vault = <<file>>
             /\ folders = { <<"sources">>, created.targetFolder }
             /\ imported = {[path |-> PathOf(file), citekey |-> created.citekey]}
             /\ generated = IF IsSome(file.fm)
                              THEN Remember(<<>>, PathOf(file),
                                            [attributes |-> Attributes(file),
                                             citekey    |-> created.citekey,
                                             at         |-> ThisYear])
                              ELSE <<>>
       /\ settings = DEFAULT_SETTINGS
       /\ templateFiles = <<>>
       /\ exported = None
       /\ now = ThisYear

ImportInit ==
  /\ vault \in HandWrittenVaults
  /\ folders = { <<"sources">> }
  /\ settings = DEFAULT_SETTINGS
  /\ templateFiles = <<>>
  /\ exported = None
  /\ now = ThisYear
  /\ imported = {}
  /\ generated = <<>>

\* ------------------------------------------------------------------------
\* Inputs and initial states: the API
\* ------------------------------------------------------------------------

\* the texts typed into the dialog's fields
DialogTitlePool == { <<"A","l","p","h","a">>, <<"B","e","t","a">> }

DialogAuthorsPool ==
  { <<"L","i",","," ","W","e","i",";"," ","M","o","s","e","r",","," ","H","a","n","s">> }

DialogYearPool == { <<"2","0","0","5">> }

\* the number of notes the dialog imports
MaxImports == 1

\* the citation data a lookup returns: title, authors and year, each present or not
CitationPool ==
  { [title  |-> Some(<<"A","l","p","h","a">>),
     author |-> Some(<< <<"M","o","s","e","r",","," ","H","a","n","s">> >>),
     year   |-> Some(<<"2","0","2","2">>)],
    [title  |-> Some(<<"B","e","t","a">>),
     author |-> None,
     year   |-> None] }

\* the vault before the dialog opens: empty, or one note written by hand
\* where an import of the title Alpha would go
DialogVaults ==
  { <<>>,
    << [dir |-> <<"sources", "default">>, name |-> <<"A","l","p","h","a">>, ext |-> "md",
        fm |-> Some(("title" :> StrV(<<"M","i","n","e">>)))] >> }

DialogInit ==
  /\ vault \in DialogVaults
  /\ folders = { <<"sources">> } \cup { vault[i].dir : i \in DOMAIN vault }
  /\ settings = DEFAULT_SETTINGS
  /\ templateFiles = <<>>
  /\ exported = None
  /\ now = ThisYear
  /\ imported = {}
  /\ generated = <<>>

\* output filenames a caller may pass, None when it passes none
FilenamePool ==
  { None, Some(<<"r","e","f","s",".","j","s","o","n">>), Some(<<"R","e","f","s",".","B","I","B">>), Some(<<"a",".","b",".","y","m","l">>),
    Some(<<"x",".","b","i","b","t","e","x">>), Some(<<"o","u","t",".","y","a","m","l">>), Some(<<"n","o","t","e","s",".","t","x","t">>), Some(<<"n","o","e","x","t">>) }

\* formats a caller may pass, None for undefined or null
FormatPool == { None, Some("bibtex"), Some("csl-json"), Some("hayagriva") }

FolderPool == { None, Some(<<"sources">>) }

\* the vaults the API is called on: the sources folder missing, empty or with notes
ApiVaults == { <<>> } \cup { <<file>> : file \in FilePool }

ApiVaultInit ==
  /\ vault \in ApiVaults
  /\ folders = IF vault = <<>> THEN {} ELSE { <<"sources">> }
  /\ settings = DEFAULT_SETTINGS
  /\ templateFiles = <<>>
  /\ exported = None
  /\ now = ThisYear
  /\ imported = {}
  /\ generated = <<>>

ApiIdle ==
  /\ apiCall = [method |-> "", this |-> None, sourcesFolder |-> None,
                outputFilename |-> None, format |-> None]
  /\ apiResult = None

\* plugin.api = createAPI(plugin) and a caller about to call exportBibliography
ApiInit ==
  /\ apiCall \in [method : {"exportBibliography", "exportBibliographyToPath"},
                  this : ThisBindings, sourcesFolder : FolderPool,
                  outputFilename : FilenamePool, format : FormatPool]
  /\ apiResult = None

\* ------------------------------------------------------------------------
\* Inputs and initial states: writing the bibliography file
\* ------------------------------------------------------------------------

MaxWrites == 2

\* values of the setting "Bibliography output folder"; empty means the sources folder
OutputFolderPool == { <<>>, <<"bib">> }

\* the plugin loaded, its API made, a vault with or without source notes
OutputInit ==
  /\ vault \in ApiVaults
  /\ folders = IF vault = <<>> THEN {} ELSE { <<"sources">> }
  /\ settings \in { [DEFAULT_SETTINGS EXCEPT !.bibliographyOutputFolder = folder] :
                    folder \in OutputFolderPool }
  /\ templateFiles = <<>>
  /\ exported = None
  /\ now = ThisYear
  /\ imported = {}
  /\ generated = <<>>
  /\ apiCall \in [method : {"exportBibliographyToPath"}, this : ThisBindings,
                  sourcesFolder : {None}, outputFilename : {None}, format : {None}]
  /\ apiResult = None

\* ------------------------------------------------------------------------
\* Inputs and initial states: template reloads and imports
\* ------------------------------------------------------------------------

MaxLoads == 2

\* a template file of the user: citekey and title only
CustomTemplate ==
  <<[key |-> "citekey", value |-> <<"{","{","c","i","t","e","k","e","y","}","}">>],
    [key |-> "title", value |-> <<"{","{","t","i","t","l","e","}","}">>]>>

\* what the user may type into the Template file setting: nothing, a blank,
\* the path of a template file and a path where no file is
TemplateFilePool == { <<>>, <<" ">>, <<"t",".","m","d">>, <<"u",".","m","d">> }

\* the source every import of this specification imports
ReloadSourceData ==
  (<<"t","i","t","l","e">> :> StrV(<<"A","l","p","h","a">>))
    @@ (<<"a","u","t","h","o","r">> :> ArrV(<<<<"M","o","s","e","r",","," ","H","a","n","s">>>>))
    @@ (<<"y","e","a","r">> :> StrV(<<"2","0","2","2">>))

\* the plugin after onload: the template loaded for the configured file,
\* nothing in flight, the vault empty or with the source imported before
ReloadInit ==
  /\ vault \in { <<>>,
                  << Val(createSourceFile(<<>>, DEFAULT_SETTINGS.sourcesFolder,
                                          DEFAULT_SETTINGS.sourceNoteTemplate,
                                          ReloadSourceData, "default").file) >> }
  /\ folders = { <<"sources">> }
  /\ templateFiles = (<<"t",".","m","d">> :> CustomTemplate)
  /\ settings \in { loadTemplateFile([DEFAULT_SETTINGS EXCEPT !.templateFile = path], templateFiles) :
                      path \in TemplateFilePool }
  /\ exported = None
  /\ now = ThisYear
  /\ imported = {}
  /\ generated = <<>>

\* ------------------------------------------------------------------------
\* Inputs and initial states: unique filenames
\* ------------------------------------------------------------------------

MaxEntries == 6

\* base filenames as generateFilename makes them
BaseFilenamePool == { <<"A","l","p","h","a">>, <<"B","e","t","a">> }

\* names of files a folder may hold: a source note, its copies, a name that
\* looks like a copy and another note
EntryNamePool ==
  { <<"A","l","p","h","a",".","m","d">>,
    <<"A","l","p","h","a"," ","(","c","o","p","y",")",".","m","d">>,
    <<"A","l","p","h","a"," ","(","c","o","p","y"," ","2",")",".","m","d">>,
    <<"A","l","p","h","a"," ","(","c","o","p","y"," ","1",")",".","m","d">>,
    <<"B","e","t","a",".","m","d">> }

\* names the folder may hold as a subfolder instead
SubfolderNamePool ==
  { <<"A","l","p","h","a",".","m","d">>,
    <<"A","l","p","h","a"," ","(","c","o","p","y",")",".","m","d">> }

\* the folders getUniqueFilename may be asked about: none at the path, or
\* one with files and at most one subfolder of the pools
FolderContentPool ==
  { None }
    \cup { Some([name \in names |-> "file"]) : names \in SUBSET EntryNamePool }
    \cup { Some([name \in names |-> IF name = sub THEN "folder" ELSE "file"]) :
             names \in SUBSET EntryNamePool, sub \in SubfolderNamePool }

UniqueInit ==
  /\ uniqueArgs \in [folder : FolderContentPool, baseFilename : BaseFilenamePool]
  /\ uniqueResult = None

\* nothing written, no notice, no dialog open, the plugin not loaded, no DOI supplied
OutIdle ==
  /\ bibFiles = <<>>
  /\ notice = None

DialogIdle == dialog = None

PluginIdle ==
  /\ plugins = <<>>
  /\ lifecycle = "disabled"

DoiIdle ==
  /\ doiArgs = None
  /\ doiResult = None

\* no template load in flight, no import under way
LoadIdle ==
  /\ loads = <<>>
  /\ saving = 0
  /\ importing = [pc |-> "idle", stable |-> FALSE]
  /\ rendered = <<>>

\* no call of getUniqueFilename
FileIdle ==
  /\ uniqueArgs = [folder |-> None, baseFilename |-> <<>>]
  /\ uniqueResult = None

RestIdle == OutIdle /\ DialogIdle /\ PluginIdle /\ DoiIdle /\ LoadIdle /\ FileIdle

\* ------------------------------------------------------------------------
\* Actions
\* ------------------------------------------------------------------------

\* one call of CitekeyGenerator.generateFromTitleAndAuthors
GenerateCitekeyCall ==
  /\ ckResult = None
  /\ ckResult' = Some(generateFromTitleAndAuthors(
                        ckArgs.title,
                        [i \in DOMAIN ckArgs.authors |-> AuthorString(ckArgs.authors[i])],
                        ckArgs.year))
  /\ UNCHANGED <<ckArgs, tplVars, vaultVars, apiVars, restVars>>

\* CitekeyGenerator.sanitizeFilename(sourceData.title), the name of the note
\* createSourceFile creates and the value of {{filename}}
SanitizeFilenameCall ==
  /\ ckResult = None
  /\ ckResult' = Some(sanitizeFilename(ckArgs.title))
  /\ UNCHANGED <<ckArgs, tplVars, vaultVars, apiVars, restVars>>

\* SourceImportModal.lookupDoi up to the lookup: the DOI handed to Cite.async
LookupDoi ==
  /\ doiArgs.doi # <<>>
  /\ doiResult.lookedUp = None
  /\ doiResult' = [doiResult EXCEPT !.lookedUp = Some(CleanLookupDoi(doiArgs.doi))]
  /\ UNCHANGED <<doiArgs, ckVars, tplVars, vaultVars, apiVars, outVars, dialog, pluginVars,
                 fileVars, loadVars>>

\* the export of a note whose doi field holds the DOI as supplied: the DOI of
\* the entry convertFrontmatterToCitationJS makes
ExportDoi ==
  /\ doiResult.exported = None
  /\ doiResult' = [doiResult EXCEPT !.exported =
                     Some(convertFrontmatterToCitationJS(
                            ("citekey" :> StrV(<<"K","1">>)) @@ ("doi" :> StrV(doiArgs.doi)),
                            DEFAULT_SETTINGS.fieldMappings)["DOI"].v[1])]
  /\ UNCHANGED <<doiArgs, ckVars, tplVars, vaultVars, apiVars, outVars, dialog, pluginVars,
                 fileVars, loadVars>>

\* the template branch of SourceImporter.generateSourceFromTemplate
RenderWithImporter ==
  /\ tplResult = None
  /\ tplResult' = Some(renderTemplateWithRegex(TemplateText(tplArgs.tokens),
                                               ImporterTemplateData(tplArgs.source)))
  /\ UNCHANGED <<tplArgs, ckVars, vaultVars, apiVars, restVars>>

\* SourceService.renderTemplate
RenderWithService ==
  /\ tplResult = None
  /\ tplResult' = Some(renderTemplate(TemplateText(tplArgs.tokens), tplArgs.source))
  /\ UNCHANGED <<tplArgs, ckVars, vaultVars, apiVars, restVars>>

\* BibliographyExportModal.loadSources: the export dialog generates the
\* bibliography of the sources folder
LoadSources ==
  /\ exported' = Some(generateBibliography(vault, folders, settings.sourcesFolder,
                                           settings.fieldMappings))
  /\ UNCHANGED <<vault, folders, settings, templateFiles, now, imported, generated, ckVars, tplVars, apiVars, restVars>>

\* the onChange of a field mapping row of the settings tab: a blank value
\* deletes the mapping
SetFieldMapping ==
  \E bibField \in MappingFieldPool, value \in MappingKeyPool :
    /\ settings' = [settings EXCEPT !.fieldMappings =
                      IF value # ""
                        THEN Override(@, (bibField :> value))
                        ELSE [f \in DOMAIN @ \ {bibField} |-> @[f]]]
    /\ settings' # settings
    /\ exported' = None
    /\ UNCHANGED <<vault, folders, templateFiles, now, imported, generated, ckVars, tplVars, apiVars, restVars>>

\* SourceImportModal.importSource: the template is loaded, the note created
\* and opened; a throw before or in vault.create leaves the vault's files as
\* they were
ImportSource ==
  \E sourceData \in SourceDataPool, mediaType \in MediaTypePool :
    LET loaded  == loadTemplateFile(settings, templateFiles)
        created == createSourceFile(vault, loaded.sourcesFolder, loaded.sourceNoteTemplate,
                                    sourceData, mediaType)
    IN /\ Len(vault) < MaxNotes
       /\ settings' = loaded
       /\ exported' = None
       /\ IF created.throws
            THEN UNCHANGED <<vault, folders, imported, generated>>
            ELSE /\ folders' = folders \cup {created.targetFolder}
                 /\ IF created.exists
                      THEN UNCHANGED <<vault, imported, generated>>
                      ELSE LET file == Val(created.file)
                           IN /\ vault' = Append(vault, file)
                              /\ imported' = imported \cup
                                   {[path |-> PathOf(file), citekey |-> created.citekey]}
                              /\ generated' =
                                   IF IsSome(file.fm)
                                     THEN Remember(generated, PathOf(file),
                                                   [attributes |-> Attributes(file),
                                                    citekey    |-> created.citekey,
                                                    at         |-> now])
                                     ELSE generated
       /\ notice' = Some(ImportNotice(created))
       /\ UNCHANGED <<templateFiles, now, ckVars, tplVars, apiVars, bibFiles, dialog,
                      pluginVars, doiVars, fileVars, loadVars>>

\* the Generate-citekey command on an open note that has frontmatter and authors
GenerateCitekey ==
  \E i \in DOMAIN vault :
    /\ vault[i].ext = "md"
    /\ CommandGenerates(vault[i])
    /\ vault' = [vault EXCEPT ![i] = GenerateCitekeyExecute(vault[i], now)]
    /\ generated' = Remember(generated, PathOf(vault[i]),
                             [attributes |-> Attributes(vault[i]),
                              citekey    |-> CommandCitekey(vault[i], now),
                              at         |-> now])
    /\ imported' = { r \in imported : r.path # PathOf(vault[i]) }
    /\ exported' = None
    /\ UNCHANGED <<folders, settings, templateFiles, now, ckVars, tplVars, apiVars, restVars>>

\* the user edits a note outside the plugin: here, removes its year
EditNote ==
  \E i \in DOMAIN vault :
    /\ IsSome(vault[i].fm)
    /\ "year" \in DOMAIN Val(vault[i].fm)
    /\ vault' = [vault EXCEPT ![i].fm = Some(Without(Val(vault[i].fm), "year"))]
    /\ imported' = { r \in imported : r.path # PathOf(vault[i]) }
    /\ exported' = None
    /\ UNCHANGED <<folders, settings, templateFiles, now, generated, ckVars, tplVars, apiVars, restVars>>

\* the user deletes a note
DeleteNote ==
  \E i \in DOMAIN vault :
    /\ vault' = SubSeq(vault, 1, i - 1) \o SubSeq(vault, i + 1, Len(vault))
    /\ imported' = { r \in imported : r.path # PathOf(vault[i]) }
    /\ generated' = Without(generated, PathOf(vault[i]))
    /\ exported' = None
    /\ UNCHANGED <<folders, settings, templateFiles, now, ckVars, tplVars, apiVars, restVars>>

\* a new year begins
YearPasses ==
  /\ now < ThisYear + MaxYears
  /\ now' = now + 1
  /\ UNCHANGED <<vault, folders, settings, templateFiles, exported, imported, generated,
                 ckVars, tplVars, apiVars, restVars>>

\* a call of plugin.api.exportBibliography settles
ExportBibliographyCall ==
  /\ apiCall.method = "exportBibliography"
  /\ apiResult = None
  /\ apiResult' = Some(exportBibliography(apiCall.this, vault, folders, apiCall.sourcesFolder,
                                          apiCall.outputFilename, apiCall.format))
  /\ UNCHANGED <<apiCall, ckVars, tplVars, vaultVars, restVars>>

\* how the pending call of plugin.api.exportBibliographyToPath settles
PathCallResult ==
  exportBibliographyToPath(apiCall.this, vault, folders, apiCall.sourcesFolder,
                           apiCall.outputFilename, apiCall.format)

\* the folder a call of exportBibliographyToPath ensures: none when it rejects
EnsuredBy(result) == IF result.rejected THEN {} ELSE { Val(result.folder) }

\* the file a call of exportBibliographyToPath writes: none when it rejects
WrittenBy(result) ==
  IF result.rejected THEN <<>>
  ELSE << [folder   |-> Val(result.folder),
           filename |-> Val(result.filename),
           content  |-> Val(result.content)] >>

\* a call of plugin.api.exportBibliographyToPath settles
ExportBibliographyToPathCall ==
  /\ apiCall.method = "exportBibliographyToPath"
  /\ apiResult = None
  /\ apiResult' = Some(PathCallResult)
  /\ folders' = folders \cup EnsuredBy(PathCallResult)
  /\ bibFiles' = bibFiles \o WrittenBy(PathCallResult)
  /\ UNCHANGED <<apiCall, vault, settings, templateFiles, exported, now, imported, generated,
                 notice, dialog, pluginVars, doiVars, fileVars, loadVars, ckVars, tplVars>>

\* the onChange of the setting "Bibliography output folder"
SetOutputFolder ==
  \E value \in OutputFolderPool :
    /\ settings' = [settings EXCEPT !.bibliographyOutputFolder = value]
    /\ settings' # settings
    /\ exported' = None
    /\ UNCHANGED <<vault, folders, templateFiles, now, imported, generated,
                   ckVars, tplVars, apiVars, restVars>>

\* the button "Export Bibliography" of the export dialog, the dialog having
\* loaded its sources
ExportFromDialog ==
  /\ IsSome(exported)
  /\ Len(bibFiles) < MaxWrites
  /\ LET file == DialogExport(settings, BibContent(settings.bibliographyFormat,
                                                   Val(exported).citeData))
     IN /\ folders' = folders \cup { file.folder }
        /\ bibFiles' = Append(bibFiles, file)
        /\ notice' = Some("Bibliography exported")
  /\ exported' = None
  /\ UNCHANGED <<vault, settings, templateFiles, now, imported, generated,
                 ckVars, tplVars, apiVars, dialog, pluginVars, doiVars, fileVars, loadVars>>

\* the command "Generate bibliography file"
GenerateBibliographyFile ==
  /\ Len(bibFiles) < MaxWrites
  /\ LET file == CommandExport(apiCall.this, settings, vault, folders)
     IN IF IsSome(file)
          THEN /\ bibFiles' = Append(bibFiles, Val(file))
               /\ notice' = Some("Bibliography exported")
          ELSE /\ notice' = Some("Failed to generate bibliography")
               /\ UNCHANGED bibFiles
  /\ notice' # notice
  /\ UNCHANGED <<vaultVars, ckVars, tplVars, apiVars, dialog, pluginVars, doiVars, fileVars, loadVars>>

\* the Import source command opens the dialog with empty source data and the
\* media type default
OpenImportDialog ==
  /\ dialog = None
  /\ dialog' = Some([sourceData |-> <<>>, mediaType |-> "default"])
  /\ UNCHANGED <<vaultVars, ckVars, tplVars, apiVars, outVars, pluginVars, doiVars, fileVars, loadVars>>

\* the onChange handlers of the Title, Authors and Year fields
EditField ==
  /\ IsSome(dialog)
  /\ \E val \in { StrV(t) : t \in DialogTitlePool } :
       \/ dialog' = Some([Val(dialog) EXCEPT !.sourceData = WithField(@, "title", val)])
       \/ \E text \in DialogAuthorsPool :
            dialog' = Some([Val(dialog) EXCEPT
                              !.sourceData = WithField(@, "author", AuthorsOfText(text))])
       \/ \E text \in DialogYearPool :
            dialog' = Some([Val(dialog) EXCEPT !.sourceData = WithField(@, "year", NumV(text))])
  /\ UNCHANGED <<vaultVars, ckVars, tplVars, apiVars, outVars, pluginVars, doiVars, fileVars, loadVars>>

\* generateButton.onclick
GenerateCitekeyButton ==
  /\ IsSome(dialog)
  /\ LET sourceData == Val(dialog).sourceData
     IN IF HasRequiredData(sourceData)
          THEN /\ dialog' = Some([Val(dialog) EXCEPT
                                    !.sourceData = WithField(@, "citekey", DialogCitekey(sourceData))])
               /\ notice' = Some("Generated citekey")
          ELSE /\ dialog' = dialog
               /\ notice' = Some("Please fill in title, authors, and year first")
  /\ UNCHANGED <<vaultVars, ckVars, tplVars, apiVars, bibFiles, pluginVars, doiVars, fileVars, loadVars>>

\* a lookup (DOI, ISBN, URL or BibTeX) whose citation data arrived
LookupCitation ==
  /\ IsSome(dialog)
  /\ \E citationData \in CitationPool :
       dialog' = Some([Val(dialog) EXCEPT !.sourceData = processCitationData(@, citationData)])
  /\ notice' = Some("Lookup successful")
  /\ UNCHANGED <<vaultVars, ckVars, tplVars, apiVars, bibFiles, pluginVars, doiVars, fileVars, loadVars>>

\* SourceImportModal.importSource on the dialog's source data: the dialog
\* closes when the note was created and stays open otherwise
ImportFromDialog ==
  /\ IsSome(dialog)
  /\ LET loaded  == loadTemplateFile(settings, templateFiles)
         created == createSourceFile(vault, loaded.sourcesFolder, loaded.sourceNoteTemplate,
                                     Val(dialog).sourceData, Val(dialog).mediaType)
     IN /\ Cardinality(imported) < MaxImports
        /\ settings' = loaded
        /\ notice' = Some(ImportNotice(created))
        /\ IF created.throws
             THEN UNCHANGED <<vault, folders, imported, generated, dialog, exported>>
             ELSE /\ folders' = folders \cup {created.targetFolder}
                  /\ IF created.exists
                       THEN UNCHANGED <<vault, imported, generated, dialog, exported>>
                       ELSE LET file == Val(created.file)
                            IN /\ vault' = Append(vault, file)
                               /\ imported' = imported \cup
                                    {[path |-> PathOf(file), citekey |-> created.citekey]}
                               /\ generated' =
                                    IF IsSome(file.fm)
                                      THEN Remember(generated, PathOf(file),
                                                    [attributes |-> Attributes(file),
                                                     citekey    |-> created.citekey,
                                                     at         |-> now])
                                      ELSE generated
                               /\ exported' = None
                               /\ dialog' = None
  /\ UNCHANGED <<templateFiles, now, ckVars, tplVars, apiVars, bibFiles, pluginVars, doiVars, fileVars, loadVars>>

\* the application enables the plugin: it constructs the instance and
\* registers it under the plugin's id, then calls onload
EnablePlugin ==
  /\ lifecycle \in {"disabled", "unloaded"}
  /\ plugins' = Override(plugins, (PluginId :> NewInstance))
  /\ lifecycle' = "loading"
  /\ UNCHANGED <<vaultVars, ckVars, tplVars, apiVars, outVars, dialog, doiVars, fileVars, loadVars>>

\* BibliographyManagerPlugin.onload: it throws into its catch before the API
\* is made (loading the settings), after it (registering the commands), or
\* runs to its end, creating the sources folder when it is missing
Onload ==
  /\ lifecycle = "loading"
  /\ \E thrownAt \in {"loadSettings", "registerCommands", "nowhere"} :
       /\ plugins' = IF thrownAt = "loadSettings" THEN plugins
                     ELSE [plugins EXCEPT ![PluginId] = WithApi(@)]
       /\ folders' = IF thrownAt = "nowhere" THEN folders \cup { settings.sourcesFolder }
                     ELSE folders
       /\ notice' = IF thrownAt = "nowhere" THEN notice
                    ELSE Some("Error loading Bibliography Manager plugin")
       /\ lifecycle' = IF thrownAt = "nowhere" THEN "enabled" ELSE "failed"
  /\ UNCHANGED <<vault, settings, templateFiles, exported, now, imported, generated,
                 ckVars, tplVars, apiVars, bibFiles, dialog, doiVars, fileVars, loadVars>>

\* the application disables the plugin: onunload runs and the application
\* drops the instance
Onunload ==
  /\ lifecycle \in {"enabled", "failed"}
  /\ plugins' = onunload(plugins)
  /\ lifecycle' = "unloaded"
  /\ UNCHANGED <<vaultVars, ckVars, tplVars, apiVars, outVars, dialog, doiVars, fileVars, loadVars>>

\* ------------------------------------------------------------------------
\* Specifications
\* ------------------------------------------------------------------------

InitCitekey == CkInit /\ TplIdle /\ VaultIdle /\ ApiIdle /\ RestIdle

NextCitekey == GenerateCitekeyCall

SpecCitekey == InitCitekey /\ [][NextCitekey]_vars

InitFilename == FilenameInit /\ TplIdle /\ VaultIdle /\ ApiIdle /\ RestIdle

NextFilename == SanitizeFilenameCall

SpecFilename == InitFilename /\ [][NextFilename]_vars

InitDoi == CkIdle /\ TplIdle /\ VaultIdle /\ ApiIdle /\ OutIdle /\ DialogIdle /\ PluginIdle /\ DoiInit /\ LoadIdle /\ FileIdle

NextDoi == LookupDoi \/ ExportDoi

SpecDoi == InitDoi /\ [][NextDoi]_vars

InitDialog == CkIdle /\ TplIdle /\ DialogInit /\ ApiIdle /\ RestIdle

NextDialog ==
  \/ OpenImportDialog
  \/ EditField
  \/ GenerateCitekeyButton
  \/ LookupCitation
  \/ ImportFromDialog

SpecDialog == InitDialog /\ [][NextDialog]_vars

InitTemplate == CkIdle /\ TplInit /\ VaultIdle /\ ApiIdle /\ RestIdle

NextTemplate == RenderWithImporter \/ RenderWithService

SpecTemplate == InitTemplate /\ [][NextTemplate]_vars

InitExport == CkIdle /\ TplIdle /\ ExportInit /\ ApiIdle /\ RestIdle

NextExport == LoadSources \/ SetFieldMapping

SpecExport == InitExport /\ [][NextExport]_vars

InitImport == CkIdle /\ TplIdle /\ ImportInit /\ ApiIdle /\ RestIdle

NextImport ==
  \/ ImportSource
  \/ LoadSources
  \/ EditNote
  \/ DeleteNote

SpecImport == InitImport /\ [][NextImport]_vars

InitCommand == CkIdle /\ TplIdle /\ CommandInit /\ ApiIdle /\ RestIdle

NextCommand ==
  \/ GenerateCitekey
  \/ EditNote
  \/ YearPasses

SpecCommand == InitCommand /\ [][NextCommand]_vars

InitAPI == CkIdle /\ TplIdle /\ ApiVaultInit /\ ApiInit /\ RestIdle

NextAPI == ExportBibliographyCall \/ ExportBibliographyToPathCall

SpecAPI == InitAPI /\ [][NextAPI]_vars

InitOutput == CkIdle /\ TplIdle /\ OutputInit /\ RestIdle

NextOutput ==
  \/ SetOutputFolder
  \/ LoadSources
  \/ ExportFromDialog
  \/ GenerateBibliographyFile
  \/ ExportBibliographyToPathCall

SpecOutput == InitOutput /\ [][NextOutput]_vars

InitLife == CkIdle /\ TplIdle /\ OutputInit /\ RestIdle

NextLife == EnablePlugin \/ Onload \/ Onunload \/ SetOutputFolder

SpecLife == InitLife /\ [][NextLife]_vars

\* ------------------------------------------------------------------------
\* Template reloads and imports, step by step (utils/template.ts,
\* ui/settingsTab.ts, ui/importModal.ts)
\* ------------------------------------------------------------------------

\* a sequence without its i-th member
RemoveAt(seq, i) == SubSeq(seq, 1, i - 1) \o SubSeq(seq, i + 1, Len(seq))

\* the runs in flight, none of them alone any more
Overlapped(runs) == [i \in DOMAIN runs |-> [runs[i] EXCEPT !.alone = FALSE]]

\* the runs in flight after loadTemplateFile began for the owner
Begun(owner) ==
  IF TemplateFileSet(settings)
    THEN Append(Overlapped(loads), AwaitingExists(owner, settings, loads))
    ELSE loads

\* importSource once the run it awaits has completed
Loaded(owner) == IF owner = "import" THEN [importing EXCEPT !.pc = "loaded"] ELSE importing

\* the onChange of the setting "Template file" up to its await of saveSettings
ChangeTemplateFile ==
  \E value \in TemplateFilePool :
    /\ value # settings.templateFile
    /\ saving + Len(loads) < MaxLoads
    /\ settings' = [settings EXCEPT !.templateFile = value]
    /\ saving' = saving + 1
    /\ loads' = Overlapped(loads)
    /\ importing' = [importing EXCEPT !.stable = FALSE]
    /\ UNCHANGED <<vault, folders, templateFiles, exported, now, imported, generated, rendered,
                   ckVars, tplVars, apiVars, outVars, dialog, pluginVars, doiVars, fileVars>>

\* saveSettings has resolved: the handler calls loadTemplateFile, which runs
\* up to its first await, or to its end when no template file is set
ReloadTemplate ==
  /\ saving > 0
  /\ saving' = saving - 1
  /\ settings' = ResetTemplate(settings)
  /\ loads' = Begun("settings")
  /\ UNCHANGED <<vault, folders, templateFiles, exported, now, imported, generated,
                 importing, rendered, ckVars, tplVars, apiVars, outVars, dialog, pluginVars, doiVars, fileVars>>

\* the Import button: importSource calls loadTemplateFile and awaits it
StartImport ==
  /\ importing.pc = "idle"
  /\ Len(rendered) < MaxImports
  /\ settings' = ResetTemplate(settings)
  /\ loads' = Begun("import")
  /\ importing' = [pc     |-> IF TemplateFileSet(settings) THEN "loading" ELSE "loaded",
                   stable |-> TemplateFileSet(settings) /\ settings.templateFile \in DOMAIN templateFiles]
  /\ UNCHANGED <<vault, folders, templateFiles, exported, now, imported, generated,
                 saving, rendered, ckVars, tplVars, apiVars, outVars, dialog, pluginVars, doiVars, fileVars>>

\* vault.adapter.exists resolves for a run: it goes on to read the file the
\* setting names now, or ends with the notice that the file was not found
ExistsResolves ==
  \E i \in DOMAIN loads :
    /\ loads[i].pc = "exists"
    /\ IF loads[i].path \in DOMAIN templateFiles
         THEN /\ loads' = [loads EXCEPT ![i] = AwaitingRead(loads[i], settings)]
              /\ UNCHANGED <<notice, importing>>
         ELSE /\ loads' = RemoveAt(loads, i)
              /\ notice' = Some("Template file not found")
              /\ importing' = Loaded(loads[i].owner)
    /\ UNCHANGED <<vaultVars, saving, rendered, bibFiles,
                   ckVars, tplVars, apiVars, dialog, pluginVars, doiVars, fileVars>>

\* vault.adapter.read settles for a run, which ends
ReadSettles ==
  \E i \in DOMAIN loads :
    /\ loads[i].pc = "read"
    /\ settings' = TemplateRead(settings, templateFiles, loads[i].path)
    /\ loads' = RemoveAt(loads, i)
    /\ importing' = Loaded(loads[i].owner)
    /\ UNCHANGED <<vault, folders, templateFiles, exported, now, imported, generated,
                   saving, rendered, ckVars, tplVars, apiVars, outVars, dialog, pluginVars, doiVars, fileVars>>

\* what createSourceFile makes of the source with the active template
CreatedNow ==
  createSourceFile(vault, settings.sourcesFolder, settings.sourceNoteTemplate,
                   ReloadSourceData, "default")

\* importSource after its await of loadTemplateFile: the SourceImporter gets
\* settings.sourceNoteTemplate as it is now and creates the note
CreateImported ==
  /\ importing.pc = "loaded"
  /\ importing' = [pc |-> "idle", stable |-> FALSE]
  /\ folders' = folders \cup { CreatedNow.targetFolder }
  /\ notice' = Some(ImportNotice(CreatedNow))
  /\ IF CreatedNow.exists
       THEN UNCHANGED <<vault, imported, rendered>>
       ELSE /\ vault' = Append(vault, Val(CreatedNow.file))
            /\ imported' = imported \cup {[path    |-> PathOf(Val(CreatedNow.file)),
                                            citekey |-> CreatedNow.citekey]}
            /\ rendered' = Append(rendered, [template |-> settings.sourceNoteTemplate,
                                             stable   |-> importing.stable,
                                             path     |-> settings.templateFile])
  /\ exported' = None
  /\ UNCHANGED <<settings, templateFiles, now, generated, loads, saving, bibFiles,
                 ckVars, tplVars, apiVars, dialog, pluginVars, doiVars, fileVars>>

\* the user deletes a template file
DeleteTemplateFile ==
  \E path \in DOMAIN templateFiles :
    /\ templateFiles' = Without(templateFiles, path)
    /\ importing' = [importing EXCEPT !.stable = FALSE]
    /\ UNCHANGED <<vault, folders, settings, exported, now, imported, generated,
                   loads, saving, rendered, ckVars, tplVars, apiVars, outVars, dialog,
                   pluginVars, doiVars, fileVars>>

InitReload == CkIdle /\ TplIdle /\ ReloadInit /\ ApiIdle /\ RestIdle

NextReload ==
  \/ ChangeTemplateFile
  \/ ReloadTemplate
  \/ StartImport
  \/ ExistsResolves
  \/ ReadSettles
  \/ CreateImported
  \/ DeleteTemplateFile

SpecReload == InitReload /\ [][NextReload]_vars

\* ------------------------------------------------------------------------
\* Unique filenames, step by step (sourceService.ts)
\* ------------------------------------------------------------------------

\* a call of getUniqueFilename returns
GetUniqueFilenameCall ==
  /\ uniqueResult = None
  /\ uniqueResult' = Some(getUniqueFilename(uniqueArgs.folder, uniqueArgs.baseFilename))
  /\ UNCHANGED <<uniqueArgs, ckVars, tplVars, vaultVars, apiVars, outVars, dialog, pluginVars,
                 doiVars, loadVars>>

\* the entries of the folder, none when the folder is not there yet
EntriesOf(folder) == IF IsSome(folder) THEN Val(folder) ELSE <<>>

\* SourceService.createSourceFile: the folder is ensured, the filename made
\* unique in it and the file created under that name
CreateUniqueSourceFile ==
  /\ Cardinality(DOMAIN EntriesOf(uniqueArgs.folder)) < MaxEntries
  /\ uniqueArgs' =
       [uniqueArgs EXCEPT !.folder =
          Some(Override(EntriesOf(uniqueArgs.folder),
                        (MdName(getUniqueFilename(Some(EntriesOf(uniqueArgs.folder)),
                                                  uniqueArgs.baseFilename)) :> "file")))]
  /\ uniqueResult' = None
  /\ notice' = Some("Source created")
  /\ UNCHANGED <<ckVars, tplVars, vaultVars, apiVars, bibFiles, dialog, pluginVars,
                 doiVars, loadVars>>

InitUnique ==
  /\ CkIdle /\ TplIdle /\ VaultIdle /\ ApiIdle /\ OutIdle /\ DialogIdle /\ PluginIdle
  /\ DoiIdle /\ LoadIdle /\ UniqueInit

NextUnique == GetUniqueFilenameCall \/ CreateUniqueSourceFile

SpecUnique == InitUnique /\ [][NextUnique]_vars

\* ------------------------------------------------------------------------
\* Source notes, as the claims speak of them
\* ------------------------------------------------------------------------

\* the note's frontmatter has a citekey with a value
CarriesCitekey(file) ==
  /\ IsSome(file.fm)
  /\ "citekey" \in DOMAIN Val(file.fm)
  /\ Val(file.fm)["citekey"].t = "str"
  /\ Val(file.fm)["citekey"].v[1] # <<>>

\* the citekey of a note that carries one
CitekeyOf(file) == Val(file.fm)["citekey"].v[1]

\* the markdown notes with a citekey at any depth under the sources folder
IsSourceNote(file) ==
  /\ file.ext = "md"
  /\ Len(file.dir) >= Len(settings.sourcesFolder)
  /\ \A d \in DOMAIN settings.sourcesFolder : file.dir[d] = settings.sourcesFolder[d]
  /\ CarriesCitekey(file)

SourceNotes == { i \in DOMAIN vault : IsSourceNote(vault[i]) }

\* the place of file i in the scan order of an export
ScanPlace(sourceFiles, i) == CHOOSE k \in DOMAIN sourceFiles : sourceFiles[k] = i

\* ------------------------------------------------------------------------
\* C1
\* ------------------------------------------------------------------------

\* C1: a generated bibliography has at most one entry per citekey, the entry
\* of a citekey comes from the first note in scan order that carries it (it
\* has that note's title, and its citekey as id, under the default mappings
\* of title and id), and no later note with that citekey has an entry; with
\* the default id mapping every citekey of the folder has its entry.
FirstNoteWins ==
  IsSome(exported) =>
    LET entries     == Val(exported).citeData
        sourceFiles == Val(exported).sourceFiles
        mappings    == settings.fieldMappings
    IN /\ \A x \in DOMAIN entries :
            LET src == entries[x].src
            IN /\ src \in SourceNotes
               /\ \A k \in DOMAIN sourceFiles :
                    CitekeyOf(vault[sourceFiles[k]]) = CitekeyOf(vault[src])
                      => ScanPlace(sourceFiles, src) <= k
               /\ "id" \in DOMAIN mappings /\ mappings["id"] = "citekey"
                    => entries[x].fields["id"] = StrV(CitekeyOf(vault[src]))
               /\ "title" \in DOMAIN mappings /\ mappings["title"] = "title"
                    => entries[x].fields["title"] = Val(vault[src].fm)["title"]
       /\ \A x, y \in DOMAIN entries :
            x # y => CitekeyOf(vault[entries[x].src]) # CitekeyOf(vault[entries[y].src])
       /\ "id" \in DOMAIN mappings /\ mappings["id"] = "citekey"
            => \A i \in SourceNotes :
                 \E x \in DOMAIN entries :
                   CitekeyOf(vault[entries[x].src]) = CitekeyOf(vault[i])

\* C1 witness: an export of two notes with the citekey Mos22, the note in the
\* subfolder scanned first; the one entry is that note's
FirstNoteWinsWitness ==
  /\ IsSome(exported)
  /\ Len(vault) >= 2
  /\ vault[1].dir = <<"sources", "Paper">>
  /\ vault[2].dir = <<"sources">>
  /\ CarriesCitekey(vault[1]) /\ CarriesCitekey(vault[2])
  /\ CitekeyOf(vault[1]) = CitekeyOf(vault[2])
  /\ Len(Val(exported).citeData) = 1
  /\ Val(exported).citeData[1].fields["title"] = StrV(<<"B","e","t","a">>)

\* ------------------------------------------------------------------------
\* C4
\* ------------------------------------------------------------------------

\* two source notes of the folder carry the same citekey
DuplicateCitekeys ==
  \E i, j \in SourceNotes : i # j /\ CitekeyOf(vault[i]) = CitekeyOf(vault[j])

\* C4: an export that meets two or more source notes with the same citekey
\* emits the console warning and the notice about duplicates; an export that
\* meets no duplicated citekey shows no duplicate notice.
DuplicatesReported ==
  IsSome(exported) =>
    /\ DuplicateCitekeys => Val(exported).warnings >= 1 /\ Val(exported).notices >= 1
    /\ ~DuplicateCitekeys => Val(exported).notices = 0

\* C4 witness: an export over a folder with a duplicated citekey has shown the notice
DuplicatesReportedWitness ==
  /\ IsSome(exported)
  /\ DuplicateCitekeys
  /\ Val(exported).notices = 1
  /\ Val(exported).warnings = 1

\* an export over source notes with distinct citekeys
NoDuplicatesExportReached ==
  /\ IsSome(exported)
  /\ ~DuplicateCitekeys
  /\ Len(Val(exported).citeData) >= 2

\* ------------------------------------------------------------------------
\* C5
\* ------------------------------------------------------------------------

\* C5 as stated: for every entry of the field mapping (field f mapped to
\* frontmatter key k), the bibliography entry of a note whose frontmatter has
\* a text under k has field f, taken from k.
MappingApplied ==
  IsSome(exported) =>
    \A x \in DOMAIN Val(exported).citeData :
      LET entry       == Val(exported).citeData[x]
          frontmatter == Val(vault[entry.src].fm)
      IN \A f \in DOMAIN settings.fieldMappings \ {"id", "type", "issued", "DOI"} :
           LET k == settings.fieldMappings[f]
           IN k \in DOMAIN frontmatter /\ frontmatter[k].t = "str" /\ frontmatter[k].v[1] # <<>>
                => f \in DOMAIN entry.fields /\ entry.fields[f] = frontmatter[k]

\* the part of C5 the code does: the title mapping is applied, also after it was changed
TitleMappingApplied ==
  IsSome(exported) =>
    \A x \in DOMAIN Val(exported).citeData :
      LET entry       == Val(exported).citeData[x]
          frontmatter == Val(vault[entry.src].fm)
      IN "title" \in DOMAIN settings.fieldMappings
           /\ settings.fieldMappings["title"] \in DOMAIN frontmatter
           => entry.fields["title"] = frontmatter[settings.fieldMappings["title"]]

\* an export of a note with a journal under the default mappings
JournalNoteExported ==
  /\ IsSome(exported)
  /\ settings.fieldMappings = DefaultFieldMappings
  /\ \E x \in DOMAIN Val(exported).citeData :
       "journal" \in DOMAIN Val(vault[Val(exported).citeData[x].src].fm)

\* ------------------------------------------------------------------------
\* C6
\* ------------------------------------------------------------------------

\* C6: the files read back are exactly the markdown notes with a citekey at
\* any depth under the sources folder, each once: no note without a citekey,
\* no file that is not markdown, no file outside the folder.
SourcesReadBack ==
  IsSome(exported) =>
    LET sourceFiles == Val(exported).sourceFiles
    IN /\ \A k \in DOMAIN sourceFiles : sourceFiles[k] \in DOMAIN vault
       /\ \A i \in DOMAIN vault :
            Cardinality({ k \in DOMAIN sourceFiles : sourceFiles[k] = i })
              = IF IsSourceNote(vault[i]) THEN 1 ELSE 0

\* C6 witness: a scan that returned the note three folders deep and neither
\* the note without citekey beside it nor the note outside the folder
SourcesReadBackWitness ==
  /\ IsSome(exported)
  /\ \E k \in DOMAIN Val(exported).sourceFiles :
       Len(vault[Val(exported).sourceFiles[k]].dir) = 3
  /\ \E i \in DOMAIN vault :
       /\ vault[i].ext = "md" /\ vault[i].dir = <<"sources">> /\ ~CarriesCitekey(vault[i])
       /\ \A k \in DOMAIN Val(exported).sourceFiles : Val(exported).sourceFiles[k] # i
  /\ \E i \in DOMAIN vault :
       /\ vault[i].dir = <<"notes">> /\ CarriesCitekey(vault[i])
       /\ \A k \in DOMAIN Val(exported).sourceFiles : Val(exported).sourceFiles[k] # i

\* ------------------------------------------------------------------------
\* C2
\* ------------------------------------------------------------------------

\* the notes an import created that were not touched since
ImportedNotes == { i \in DOMAIN vault : \E r \in imported : r.path = PathOf(vault[i]) }

\* C2 as stated: after any sequence of imports, no two source notes of the
\* sources folder carry the same citekey.
CitekeysUnique ==
  \A i, j \in ImportedNotes \cap SourceNotes :
    i # j => CitekeyOf(vault[i]) # CitekeyOf(vault[j])

\* ------------------------------------------------------------------------
\* C7
\* ------------------------------------------------------------------------

\* C7 as stated: an export after a successful import, the created note
\* neither edited nor deleted since, has an entry whose id is the citekey the
\* import gave the note.
ImportedNoteExported ==
  IsSome(exported) =>
    \A r \in imported :
      \E x \in DOMAIN Val(exported).citeData :
        Val(exported).citeData[x].fields["id"] = StrV(r.citekey)

\* an export with the entry of an imported note
ImportedNoteExportedReached ==
  /\ IsSome(exported)
  /\ \E r \in imported :
       \E x \in DOMAIN Val(exported).citeData :
         Val(exported).citeData[x].fields["id"] = StrV(r.citekey)

\* ------------------------------------------------------------------------
\* C8
\* ------------------------------------------------------------------------

\* C8 as stated: a citekey generated again for a note whose authors, year and
\* title are unchanged is the citekey generated before.
CitekeyStable ==
  \A path \in DOMAIN generated :
    Len(generated[path]) = 2 /\ generated[path][1].attributes = generated[path][2].attributes
      => generated[path][1].citekey = generated[path][2].citekey

\* C8, amended: a citekey generated again for a note whose frontmatter has a
\* year (not empty, not 0) and whose authors, year and title are unchanged is
\* the citekey generated before.
CitekeyStableWithYear ==
  \A path \in DOMAIN generated :
    /\ Len(generated[path]) = 2
    /\ generated[path][1].attributes = generated[path][2].attributes
    /\ Truthy(generated[path][1].attributes.year)
    => generated[path][1].citekey = generated[path][2].citekey

\* C8 witness: the citekey of a note with a year was generated in one year and
\* again in the next, its authors, year and title unchanged
CitekeyStableWithYearWitness ==
  \E path \in DOMAIN generated :
    /\ Len(generated[path]) = 2
    /\ generated[path][1].attributes = generated[path][2].attributes
    /\ Truthy(generated[path][1].attributes.year)
    /\ generated[path][1].at > generated[path][2].at
    /\ generated[path][1].citekey = generated[path][2].citekey

\* the command ran on a note an import created
RegeneratedAfterImportReached ==
  \E path \in DOMAIN generated :
    /\ Len(generated[path]) = 2
    /\ path[1] = <<"sources", "Paper">>
    /\ generated[path][1].attributes = generated[path][2].attributes

\* ------------------------------------------------------------------------
\* C10
\* ------------------------------------------------------------------------

\* the format the extension of a filename stands for, compared without regard to case
FormatOfExtension(filename) ==
  LET lower == ToLowerCase(filename)
      ends(suffix) == Len(lower) >= Len(suffix)
                        /\ SubSeq(lower, Len(lower) - Len(suffix) + 1, Len(lower)) = suffix
  IN IF ends(<<".","b","i","b">>) \/ ends(<<".","b","i","b","t","e","x">>) THEN Some("bibtex")
     ELSE IF ends(<<".","j","s","o","n">>) THEN Some("csl-json")
     ELSE IF ends(<<".","y","a","m","l">>) \/ ends(<<".","y","m","l">>) THEN Some("hayagriva")
     ELSE None

\* C10 as stated: a call with a nullish format and a filename of a known
\* extension exports in the format of the extension, whatever its case; a
\* call with a format exports in that format, whatever the filename.
FormatDetected ==
  IsSome(apiResult) /\ apiCall.method = "exportBibliography" =>
    /\ ~IsSome(apiCall.format) /\ IsSome(apiCall.outputFilename)
         /\ IsSome(FormatOfExtension(Val(apiCall.outputFilename)))
         => Val(apiResult).format = FormatOfExtension(Val(apiCall.outputFilename))
    /\ IsSome(apiCall.format) => Val(apiResult).format = apiCall.format

\* every call of the API is rejected with a TypeError or for the extension
\* before generateBibliography is called
ApiCallsRejected ==
  IsSome(apiResult) =>
    /\ Val(apiResult).rejected
    /\ Val(apiResult).error \in {"TypeError", "Unsupported file extension"}

\* a call with folder, filename and format given has settled
FullCallSettled ==
  /\ IsSome(apiResult)
  /\ apiCall.method = "exportBibliography"
  /\ IsSome(apiCall.sourcesFolder) /\ IsSome(apiCall.outputFilename) /\ IsSome(apiCall.format)

\* ------------------------------------------------------------------------
\* C11
\* ------------------------------------------------------------------------

\* the call passes no argument
NoArguments ==
  /\ apiCall.sourcesFolder = None
  /\ apiCall.outputFilename = None
  /\ apiCall.format = None

\* C11 as stated: exportBibliography called with no arguments, the sources
\* folder of the settings holding source notes, completes with the
\* bibliography generated for the sources folder and in the format of the
\* settings.
DefaultsExported ==
  /\ IsSome(apiResult)
  /\ apiCall.method = "exportBibliography"
  /\ NoArguments
  /\ SourceNotes # {}
  => /\ ~Val(apiResult).rejected
     /\ Val(apiResult).format = Some(settings.bibliographyFormat)
     /\ Val(apiResult).citeData
          = generateBibliography(vault, folders, settings.sourcesFolder,
                                 settings.fieldMappings).citeData

\* a call of exportBibliography without arguments has settled over a folder with source notes
DefaultsCallSettled ==
  /\ IsSome(apiResult)
  /\ apiCall.method = "exportBibliography"
  /\ NoArguments
  /\ SourceNotes # {}

\* ------------------------------------------------------------------------
\* C12
\* ------------------------------------------------------------------------

\* C12: when exportBibliographyToPath resolves, the path it returns is that
\* of a written file whose content is the bibliography exportBibliography
\* generates for the same arguments.
PathExportWritten ==
  /\ IsSome(apiResult)
  /\ apiCall.method = "exportBibliographyToPath"
  /\ ~Val(apiResult).rejected
  => LET generation == exportBibliography(apiCall.this, vault, folders, apiCall.sourcesFolder,
                                          apiCall.outputFilename, apiCall.format)
     IN /\ bibFiles # <<>>
        /\ ~generation.rejected
        /\ bibFiles[Len(bibFiles)]
             = [folder   |-> Val(Val(apiResult).folder),
                filename |-> Val(Val(apiResult).filename),
                content  |-> BibContent(Val(generation.format), generation.citeData)]

\* no call of exportBibliographyToPath resolves: each is rejected, and with a
\* TypeError unless the extension of the filename is refused first
PathExportNeverResolves ==
  IsSome(apiResult) /\ apiCall.method = "exportBibliographyToPath"
    => /\ Val(apiResult).rejected
       /\ bibFiles = <<>>

\* a call of exportBibliographyToPath has settled over a folder with source notes
PathCallSettled ==
  /\ IsSome(apiResult)
  /\ apiCall.method = "exportBibliographyToPath"
  /\ SourceNotes # {}

\* ------------------------------------------------------------------------
\* C13
\* ------------------------------------------------------------------------

\* the folder the settings name for bibliography files
ConfiguredOutputFolder ==
  IF settings.bibliographyOutputFolder # <<>>
    THEN settings.bibliographyOutputFolder
    ELSE settings.sourcesFolder

WrittenToSourcesFolderReached ==
  /\ bibFiles # <<>>
  /\ settings.bibliographyOutputFolder = <<>>
  /\ bibFiles[Len(bibFiles)].folder = settings.sourcesFolder

\* files are written by the export dialog only: the command and
\* exportBibliographyToPath fail before they write
OnlyDialogWrites ==
  [][Len(bibFiles') > Len(bibFiles) => notice' = Some("Bibliography exported") /\ IsSome(exported)]_vars

\* ------------------------------------------------------------------------
\* C14
\* ------------------------------------------------------------------------

\* what another plugin gets from app.plugins.getPlugin("bibliography-manager")?.api:
\* the methods on offer, none when the lookup finds no plugin or no api
LookedUpApi ==
  IF PluginId \in DOMAIN plugins /\ IsSome(plugins[PluginId].api)
    THEN Val(plugins[PluginId].api)
    ELSE {}

\* C14: once onload has completed without error and until onunload, the
\* lookup of bibliography-manager yields an object whose api offers
\* exportBibliography and exportBibliographyToPath; after onunload the
\* registry has no entry bibliography-manager.
ApiOffered ==
  /\ lifecycle = "enabled"
       => {"exportBibliography", "exportBibliographyToPath"} \subseteq LookedUpApi
  /\ lifecycle = "unloaded" => PluginId \notin DOMAIN plugins

\* C14 witness: the plugin was loaded, settings were changed while it was
\* enabled, and the lookup still offers both methods
ApiOfferedWitness ==
  /\ lifecycle = "enabled"
  /\ settings # DEFAULT_SETTINGS
  /\ <<"sources">> \in folders
  /\ LookedUpApi = createAPI

\* the plugin was unloaded and its entry is gone
UnloadedReached ==
  /\ lifecycle = "unloaded"
  /\ PluginId \notin DOMAIN plugins

\* ------------------------------------------------------------------------
\* C3
\* ------------------------------------------------------------------------

\* the first n letters of a word
FirstLetters(w, n) == [i \in 1..(IF Len(w) < n THEN Len(w) ELSE n) |-> w[i]]

\* a word with its first letter in upper case and the others in lower case
Capitalised(w) == [i \in DOMAIN w |-> IF i = 1 THEN UpperChar(w[i]) ELSE LowerChar(w[i])]

\* the last two digits of a year of at least two digits
LastTwoDigits(y) == <<y[Len(y) - 1], y[Len(y)]>>

IsPlainTitle(t) ==
  /\ t # <<>>
  /\ \A i \in DOMAIN t : IsLetter(t[i]) \/ t[i] = " "
  /\ IsLetter(t[1])

CitekeySingleAuthorReached ==
  ckResult = Some(<<"L","i","0","5">>)

CitekeyFromTitleReached ==
  ckResult = Some(<<"D","e","e","p"," ","1","4">>)

\* ------------------------------------------------------------------------
\* C9
\* ------------------------------------------------------------------------

\* some position of the text starts a {{...}} placeholder
HasPlaceholder(text) ==
  \E i \in DOMAIN text : PlaceholderLen(SubSeq(text, i, Len(text))) > 0

\* the value a variable has in the source data, as text; empty when it has none
VariableText(source, name) ==
  IF name \in DOMAIN source /\ source[name].t \in {"str", "num"}
    THEN source[name].v[1]
    ELSE <<>>

\* the template has only literal text and placeholders of text-valued or valueless fields
IsPlainTemplate(args) ==
  \A i \in DOMAIN args.tokens :
    LET tok == args.tokens[i]
    IN /\ tok.kind \in {"lit", "var"}
       /\ tok.kind = "var" =>
            /\ tok.text # nFilename
            /\ tok.text \in DOMAIN args.source => args.source[tok.text].t # "arr"

RECURSIVE ExpectedText(_, _)
ExpectedText(tokens, source) ==
  IF tokens = <<>> THEN <<>>
  ELSE (IF Head(tokens).kind = "var"
          THEN VariableText(source, Head(tokens).text)
          ELSE Head(tokens).text)
         \o ExpectedText(Tail(tokens), source)

ListFields == { nAuthor, nKeywords }

\* the text the guide gives for a variable: a list as its elements in order
\* separated by a comma and a space
GuideText(source, name) ==
  IF name \in DOMAIN source /\ source[name].t = "arr"
    THEN Join(source[name].v, <<",", " ">>)
    ELSE VariableText(source, name)

\* the template has only literal text and placeholders, none of them {{filename}}
IsListTemplate(args) ==
  \A i \in DOMAIN args.tokens :
    /\ args.tokens[i].kind \in {"lit", "var"}
    /\ args.tokens[i].text # nFilename

RECURSIVE GuideRendering(_, _)
GuideRendering(tokens, source) ==
  IF tokens = <<>> THEN <<>>
  ELSE (IF Head(tokens).kind = "var"
          THEN GuideText(source, Head(tokens).text)
          ELSE Head(tokens).text)
         \o GuideRendering(Tail(tokens), source)

\* C15: in a rendered note, {{author}} and {{keywords}} render a list-valued
\* field as its elements in order separated by a comma and a space.
ListsCommaSeparated ==
  (IsSome(tplResult) /\ IsListTemplate(tplArgs)) =>
    Val(tplResult) = GuideRendering(tplArgs.tokens, tplArgs.source)

\* {{keywords}} of a source with three keywords was rendered
KeywordsRendered ==
  /\ IsSome(tplResult)
  /\ tplArgs.tokens = <<Var(nKeywords, 0)>>
  /\ nKeywords \in DOMAIN tplArgs.source
  /\ tplArgs.source[nKeywords].t = "arr"
  /\ Val(tplResult) = <<"k", ",", "l", ",", "m">>

\* ------------------------------------------------------------------------
\* C16
\* ------------------------------------------------------------------------

\* the punctuation the sanitization replaces
Punctuation == { ",", ":", ";" }

\* C16: filename sanitization replaces punctuation with hyphens and
\* normalises spaces and hyphens: each run of punctuation, spaces and hyphens
\* becomes a single hyphen, so the sanitized filename contains no space.
HyphenatedFilename ==
  IsSome(ckResult) =>
    LET name == Val(ckResult)
    IN /\ \A i \in DOMAIN name : name[i] \notin Punctuation \cup {" "}
       /\ \A i \in 1..(Len(name) - 1) : ~(name[i] = "-" /\ name[i + 1] = "-")

\* a title of two words was sanitized and the blank is still there
BlankKeptReached ==
  /\ ckArgs.title = <<"a", ":", " ", "a">>
  /\ ckResult = Some(<<"a", " ", " ", "a">>)

\* ------------------------------------------------------------------------
\* C17
\* ------------------------------------------------------------------------

\* the characters a filename must not have
InvalidFilenameChars == { "<", ">", ":", "\"", "/", "\\", "|", "?", "*" }

\* C17: for every title, the sanitized filename contains none of the invalid
\* filename characters < > : " / \ | ? *.
NoInvalidCharacters ==
  IsSome(ckResult) =>
    \A i \in DOMAIN Val(ckResult) : Val(ckResult)[i] \notin InvalidFilenameChars

\* C17 witness: a title with a slash, an unclosed tag and an unclosed LaTeX
\* command was sanitized
NoInvalidCharactersWitness ==
  /\ ckArgs.title = <<"a", "/", "<", "\\", "i", "{">>
  /\ ckResult = Some(<<"a", "i">>)

\* a LaTeX command was unwrapped on the way
LatexUnwrappedReached ==
  /\ ckArgs.title = <<"\\", "i", "{", "a", "}", ">">>
  /\ ckResult = Some(<<"a">>)

\* ------------------------------------------------------------------------
\* C18
\* ------------------------------------------------------------------------

\* the bare DOI of a DOI supplied in a URL form
BareDoi == SubSeq(doiArgs.doi, Len(doiArgs.form) + 1, Len(doiArgs.doi))

\* C18: a DOI supplied in any URL form (https://doi.org/..., http://doi.org/...,
\* https://dx.doi.org/..., http://dx.doi.org/...) is reduced to the bare DOI,
\* both before the lookup at import and in the DOI field of the exported
\* bibliography entry.
DoiReduced ==
  doiArgs.form \in DoiUrlForms =>
    /\ IsSome(doiResult.lookedUp) => Val(doiResult.lookedUp) = BareDoi
    /\ IsSome(doiResult.exported) => Val(doiResult.exported) = BareDoi

\* the lookup reduces every URL form
LookupDoiReduced ==
  (doiArgs.form \in DoiUrlForms /\ IsSome(doiResult.lookedUp)) =>
    Val(doiResult.lookedUp) = BareDoi

\* an http://doi.org/ DOI was looked up bare and exported with its prefix
DoiPrefixExportedReached ==
  /\ doiArgs.doi = <<"h","t","t","p",":","/","/","d","o","i",".","o","r","g","/">> \o <<"1","0",".","1","/","x">>
  /\ doiResult.lookedUp = Some(<<"1","0",".","1","/","x">>)
  /\ doiResult.exported = Some(doiArgs.doi)

\* ------------------------------------------------------------------------
\* C19
\* ------------------------------------------------------------------------

\* the step is an import from the open dialog: the dialog closes, or a
\* notice of a failed import appears
ImportStep ==
  /\ IsSome(dialog)
  /\ \/ dialog' = None
     \/ notice' # notice /\ notice' \in { Some(DuplicateNotice), Some(ImportErrorNotice) }

\* a file already exists at the path derived from the dialog's title
PathTaken ==
  /\ SrcGet(Val(dialog).sourceData, "title").t = "str"
  /\ \E i \in DOMAIN vault :
       PathOf(vault[i]) = << settings.sourcesFolder \o <<Val(dialog).mediaType>>,
                             sanitizeFilename(TitleText(Val(dialog).sourceData)),
                             "md" >>

\* every note of the vault is still there with its content
NotesKept == \A i \in DOMAIN vault : i \in DOMAIN vault' /\ vault'[i] = vault[i]

YearlessImportFailedReached ==
  /\ IsSome(dialog)
  /\ SrcGet(Val(dialog).sourceData, "title") = StrV(<<"A","l","p","h","a">>)
  /\ SrcGet(Val(dialog).sourceData, "year").t = "undef"
  /\ notice = Some(ImportErrorNotice)
  /\ Len(vault) = 1

\* ------------------------------------------------------------------------
\* C20
\* ------------------------------------------------------------------------

\* C20: the citekey written into a note created by import equals the citekey
\* held in the import dialog's source data at the moment of import, for every
\* sequence of lookups and field edits that preceded the import.
DialogCitekeyWritten ==
  [][(IsSome(dialog) /\ dialog' = None /\ Truthy(SrcGet(Val(dialog).sourceData, "citekey")))
       => CachedCitekey(vault'[Len(vault')]) = SrcGet(Val(dialog).sourceData, "citekey")]_vars

\* a note was imported whose citekey is not the one the dialog generated
\* before the year was edited
OtherCitekeyWrittenReached ==
  /\ dialog = None
  /\ notice = Some(ImportedNotice)
  /\ \E i \in DOMAIN vault :
       /\ CachedCitekey(vault[i]) = StrV(<<"M","o","s","0","5">>)
       /\ FmGet(Val(vault[i].fm), "title") = StrV(<<"A","l","p","h","a">>)

\* ------------------------------------------------------------------------
\* C21
\* ------------------------------------------------------------------------

\* the ids of the entries of a generated bibliography, in order
EntryIds(bib) == [i \in DOMAIN bib.citeData |-> bib.citeData[i].fields["id"]]

\* C21: in every generated bibliography the entry ids are pairwise distinct,
\* for every field mapping, including one in which the id field is mapped to
\* a frontmatter key other than citekey.
EntryIdsDistinct ==
  IsSome(exported) =>
    \A i, j \in DOMAIN Val(exported).citeData :
      i # j => EntryIds(Val(exported))[i] # EntryIds(Val(exported))[j]

\* under the default mapping (id -> citekey) the ids of a bibliography
\* generated from notes with equal citekeys are pairwise distinct
EntryIdsDistinctByCitekey ==
  (IsSome(exported) /\ MappedKey(settings.fieldMappings, "id") = "citekey") =>
    \A i, j \in DOMAIN Val(exported).citeData :
      i # j => EntryIds(Val(exported))[i] # EntryIds(Val(exported))[j]

\* two notes with different citekeys and the same altid were exported with
\* id mapped to altid: both entries carry the id X1
SharedMappedIdReached ==
  /\ IsSome(exported)
  /\ MappedKey(settings.fieldMappings, "id") = "altid"
  /\ Val(exported).duplicatesFound = 0
  /\ \E i, j \in DOMAIN Val(exported).citeData :
       /\ i # j
       /\ EntryIds(Val(exported))[i] = StrV(<<"X","1">>)
       /\ EntryIds(Val(exported))[j] = StrV(<<"X","1">>)

\* ------------------------------------------------------------------------
\* C26
\* ------------------------------------------------------------------------

\* the number of members of a list that equal x
Occurrences(x, list) == Cardinality({ k \in DOMAIN list : list[k] = x })

\* the command acts on note i in this step
CommandRanOn(i) ==
  /\ vault[i].ext = "md"
  /\ CommandGenerates(vault[i])
  /\ vault'[i] = GenerateCitekeyExecute(vault[i], now)
  /\ generated' # generated

\* the number of times the aliases of a note hold @<citekey>, for the
\* citekey in the note's frontmatter
AliasCount(file) ==
  IF FmGet(Val(file.fm), "aliases").t = "arr"
    THEN Occurrences(<<"@">> \o CachedCitekey(file).v[1], FmGet(Val(file.fm), "aliases").v)
    ELSE 0

\* C26: the Generate-citekey command adds @<citekey> to the note's aliases
\* only if it is not already present: after any number of executions on a
\* note, for every prior form of the aliases field (absent, a list, or a
\* single string), the aliases contain @<citekey> exactly once.
AliasExactlyOnce ==
  [][\A i \in DOMAIN vault : CommandRanOn(i) => AliasCount(vault'[i]) = 1]_vars

\* the same, for every prior form but a single string that is the alias
\* itself and the list with the alias twice that the command makes of it
AliasExactlyOnceUnlessItsString ==
  [][\A i \in DOMAIN vault :
       (CommandRanOn(i)
          /\ FmGet(Val(vault[i].fm), "aliases")
               \notin { StrV(<<"@">> \o CommandCitekey(vault[i], now)),
                        ArrV(<<<<"@">> \o CommandCitekey(vault[i], now),
                               <<"@">> \o CommandCitekey(vault[i], now)>>) })
         => AliasCount(vault'[i]) = 1]_vars

\* the note whose aliases field was the string @LiMo05 holds the alias twice
AliasTwiceReached ==
  \E i \in DOMAIN vault :
    /\ IsSome(vault[i].fm)
    /\ CachedCitekey(vault[i]) = StrV(<<"L","i","M","o","0","5">>)
    /\ FmGet(Val(vault[i].fm), "aliases")
         = ArrV(<<<<"@","L","i","M","o","0","5">>, <<"@","L","i","M","o","0","5">>>>)

\* a list of aliases without the alias got it appended once
AliasAppendedReached ==
  \E i \in DOMAIN vault :
    /\ IsSome(vault[i].fm)
    /\ FmGet(Val(vault[i].fm), "aliases")
         = ArrV(<<<<"n","i","c","k">>, <<"@","L","i","M","o","0","5">>>>)
    /\ PathOf(vault[i]) \in DOMAIN generated

\* ------------------------------------------------------------------------
\* C24
\* ------------------------------------------------------------------------

\* the sources folder yields no valid source entry: generateBibliography
\* returns "" instead of formatted text
NoValidEntry ==
  generateBibliography(vault, folders, settings.sourcesFolder, settings.fieldMappings).citeData = <<>>

\* plugin.api.exportBibliography() rejects, whatever the reason
GenerationFails ==
  exportBibliography(apiCall.this, vault, folders, None, None, None).rejected

\* C24: if the sources folder yields no valid source entry, or bibliography
\* generation fails, the Generate-bibliography-file command writes no file,
\* so any existing bibliography file is left unchanged, and it shows a
\* failure notice.
FailedCommandWritesNothing ==
  [][(GenerateBibliographyFile /\ (NoValidEntry \/ GenerationFails))
       => (bibFiles' = bibFiles /\ notice' = Some("Failed to generate bibliography"))]_vars

\* C24 witness: the command failed on sources without a valid entry and the
\* bibliography file written before is still the only one
FailedCommandWritesNothingWitness ==
  /\ NoValidEntry
  /\ notice = Some("Failed to generate bibliography")
  /\ Len(bibFiles) = 1

\* the command failed on sources that do hold a valid entry
CommandFailedWithSourcesReached ==
  /\ ~NoValidEntry
  /\ notice = Some("Failed to generate bibliography")

\* ------------------------------------------------------------------------
\* C25
\* ------------------------------------------------------------------------

\* the content of a file is the "" generateBibliography returns for no entry
EmptyContent(file) == file.content.citeData = <<>>

\* C25: the export dialog never writes a bibliography file whose content is
\* empty or an error placeholder: if loading the sources failed or found no
\* valid source, pressing Export writes no file.
DialogWritesNoEmptyFile ==
  [][(IsSome(exported) /\ Val(exported).citeData = <<>>) => bibFiles' = bibFiles]_vars

\* the dialog wrote a file with empty content
EmptyFileWrittenReached ==
  /\ bibFiles # <<>>
  /\ EmptyContent(bibFiles[Len(bibFiles)])
  /\ notice = Some("Bibliography exported")

\* what the dialog writes is what its loading of the sources produced
DialogWritesLoadedContent ==
  [][(IsSome(exported) /\ Len(bibFiles') > Len(bibFiles))
       => bibFiles'[Len(bibFiles')].content.citeData = Val(exported).citeData]_vars

\* ------------------------------------------------------------------------
\* C23
\* ------------------------------------------------------------------------

\* a run of loadTemplateFile ends in this step: one that waited for
\* vault.adapter, or one that found no template file set and never waited
LoadCompletes ==
  \/ Len(loads') < Len(loads)
  \/ saving' < saving /\ Len(loads') = Len(loads)
  \/ importing.pc = "idle" /\ importing'.pc = "loaded"

\* the template the settings and the files of a state call for: the content
\* of the configured file if the setting is non-empty and the file is there,
\* the built-in default otherwise
TemplateCalledFor(st, files) == loadTemplateFile(st, files).sourceNoteTemplate

\* C23: when loadTemplateFile completes, the active source-note template is
\* the content of the configured template file if the template-file setting
\* is non-empty and the file exists and can be read, and is the built-in
\* default template in every other case (empty setting, missing file, read
\* error).
LoadedTemplateActive ==
  [][LoadCompletes
       => settings'.sourceNoteTemplate = TemplateCalledFor(settings', templateFiles')]_vars

\* the run that ends in this step never had another run beside it, and the
\* setting did not change while it waited
LoadCompletesAlone ==
  \/ Len(loads) = 1 /\ loads[1].alone /\ loads' = <<>>
  \/ loads = <<>> /\ saving' < saving /\ loads' = <<>>
  \/ loads = <<>> /\ importing.pc = "idle" /\ importing'.pc = "loaded"

\* the same for a run that did not overlap another run or a change of the setting
LoadedAloneTemplateActive ==
  [][LoadCompletesAlone
       => settings'.sourceNoteTemplate = TemplateCalledFor(settings', templateFiles')]_vars

\* no run is in flight, the setting names a path where no file is, the user
\* was told so, and the active template is the content of the file t.md
StaleTemplateReached ==
  /\ loads = <<>>
  /\ saving = 0
  /\ settings.templateFile = <<"u",".","m","d">>
  /\ notice = Some("Template file not found")
  /\ settings.sourceNoteTemplate = CustomTemplate

\* runs that were alone ended with the file's content, and with the default
\* after the file was deleted
AloneLoadedFileReached ==
  /\ loads = <<>>
  /\ saving = 0
  /\ settings.templateFile = <<"t",".","m","d">>
  /\ settings.sourceNoteTemplate = CustomTemplate
  /\ rendered # <<>>

\* ------------------------------------------------------------------------
\* C22
\* ------------------------------------------------------------------------

\* C22: under any interleaving of template reloads (started by a change of
\* the template-file setting) and imports, a note imported while a template
\* file is configured and exists is rendered from that file's content and
\* never from the built-in default template.
ImportedFromTemplateFile ==
  \A k \in DOMAIN rendered :
    rendered[k].stable =>
      /\ rendered[k].path \in DOMAIN templateFiles
           => rendered[k].template = templateFiles[rendered[k].path]
      /\ rendered[k].template # DEFAULT_SETTINGS.sourceNoteTemplate

\* a note was imported from the default template although the setting named
\* the file t.md from the Import button to the creation of the note
ImportedFromDefaultReached ==
  \E k \in DOMAIN rendered :
    /\ rendered[k].stable
    /\ rendered[k].path = <<"t",".","m","d">>
    /\ rendered[k].template = DEFAULT_SETTINGS.sourceNoteTemplate

\* a note was imported from the content of the configured file
ImportedFromFileReached ==
  \E k \in DOMAIN rendered :
    /\ rendered[k].stable
    /\ rendered[k].template = CustomTemplate

\* ------------------------------------------------------------------------
\* C27
\* ------------------------------------------------------------------------

\* the names in the order base, base (copy), base (copy 2), base (copy 3), ...
NameInOrder(baseFilename, k) ==
  IF k = 0 THEN baseFilename
  ELSE IF k = 1 THEN baseFilename \o <<" ","(","c","o","p","y",")">>
  ELSE baseFilename \o <<" ","(","c","o","p","y"," ">> \o NatText(k) \o <<")">>

\* a file <name>.md exists in the folder
FileNamed(folder, name) ==
  /\ IsSome(folder)
  /\ MdName(name) \in DOMAIN Val(folder)
  /\ Val(folder)[MdName(name)] = "file"

\* a file or a subfolder <name>.md exists in the folder
EntryNamed(folder, name) ==
  /\ IsSome(folder)
  /\ MdName(name) \in DOMAIN Val(folder)

\* C27: getUniqueFilename terminates for every folder content and returns
\* the first name, in the order base, base (copy), base (copy 2),
\* base (copy 3), and so on, for which no file <name>.md exists in the folder.
FirstNameWithoutFile ==
  IsSome(uniqueResult) =>
    \E k \in 0..MaxEntries :
      /\ Val(uniqueResult) = NameInOrder(uniqueArgs.baseFilename, k)
      /\ ~FileNamed(uniqueArgs.folder, NameInOrder(uniqueArgs.baseFilename, k))
      /\ \A j \in 0..(k - 1) : FileNamed(uniqueArgs.folder, NameInOrder(uniqueArgs.baseFilename, j))

\* C27 as amended: the first name in that order for which the folder holds
\* neither a file nor a subfolder <name>.md.
FirstNameNotTaken ==
  IsSome(uniqueResult) =>
    \E k \in 0..MaxEntries :
      /\ Val(uniqueResult) = NameInOrder(uniqueArgs.baseFilename, k)
      /\ ~EntryNamed(uniqueArgs.folder, NameInOrder(uniqueArgs.baseFilename, k))
      /\ \A j \in 0..(k - 1) : EntryNamed(uniqueArgs.folder, NameInOrder(uniqueArgs.baseFilename, j))

\* C27 witness: the folder holds Alpha.md, Alpha (copy).md and
\* Alpha (copy 2).md, and the call for Alpha returned Alpha (copy 3)
FirstNameNotTakenWitness ==
  /\ IsSome(uniqueResult)
  /\ uniqueArgs.baseFilename = <<"A","l","p","h","a">>
  /\ EntryNamed(uniqueArgs.folder, <<"A","l","p","h","a">>)
  /\ EntryNamed(uniqueArgs.folder, <<"A","l","p","h","a"," ","(","c","o","p","y",")">>)
  /\ EntryNamed(uniqueArgs.folder, <<"A","l","p","h","a"," ","(","c","o","p","y"," ","2",")">>)
  /\ Val(uniqueResult) = <<"A","l","p","h","a"," ","(","c","o","p","y"," ","3",")">>

\* the folder holds a subfolder Alpha.md and no file of that name, and the
\* call for Alpha returned another name than Alpha
SubfolderNameSkippedReached ==
  /\ IsSome(uniqueResult)
  /\ uniqueArgs.baseFilename = <<"A","l","p","h","a">>
  /\ EntryNamed(uniqueArgs.folder, <<"A","l","p","h","a">>)
  /\ ~FileNamed(uniqueArgs.folder, <<"A","l","p","h","a">>)
  /\ Val(uniqueResult) # <<"A","l","p","h","a">>

\* no folder is at the path and the call returned the base filename
NoFolderReached ==
  /\ IsSome(uniqueResult)
  /\ ~IsSome(uniqueArgs.folder)
  /\ Val(uniqueResult) = uniqueArgs.baseFilename

====
